---------------------------- MODULE Spec2Model ----------------------------
(***************************************************************************)
(* A model of aphelion-util: the Nibble type, the five instruction         *)
(* encoding formats (E, R, M, F, B) and the InstructionSet decoder.        *)
(*                                                                         *)
(* Representation of the machine integers:                                 *)
(*   u8, u16   a natural number below 2^8, 2^16                            *)
(*   u32       a record [hi, lo] of its two 16-bit halves (TLC's integers  *)
(*             are 32-bit signed, so a u32 does not fit in one of them)    *)
(*   Nibble    the discriminant 0..15 of the enum (X0 .. XF)               *)
(*   Option    None, or Some(v)                                            *)
(***************************************************************************)
EXTENDS Integers, Sequences, FiniteSets, TLC

VARIABLES input, pc, mid, result

vars == <<input, pc, mid, result>>

---------------------------------------------------------------------------
(* Bounds of the model: how many entries of each sample table are used.    *)

\* bytes drawn for the fields of the encoding formats
NumBytes == 4
\* nibbles drawn for the register and func fields of format records
NumNibbles == 3
\* immediates drawn for the 16-bit and 32-bit immediate fields of records
NumImms == 5
\* the largest of the consecutive nibble positions asked of nth_nibble
MaxIdx == 9

ByteTable == <<0, 255, 165, 90, 15, 240, 1, 128>>
NibbleTable == <<0, 15, 10, 5, 1, 8, 7, 12>>
\* 0x0000 0x0FFF 0x1000 0xFFFF 0xA5C3 0x0123 0x8000 0xF000
U16Table == <<0, 4095, 4096, 65535, 42435, 291, 32768, 61440>>

ByteSample == {ByteTable[k] : k \in 1..NumBytes}
NibbleSample == {NibbleTable[k] : k \in 1..NumNibbles}
U16Sample == {U16Table[k] : k \in 1..NumImms}

---------------------------------------------------------------------------
(* Option<T> *)

None == [tag |-> "None"]
Some(v) == [tag |-> "Some", val |-> v]

\* an operation that aborts: an unreachable!() arm, an index out of bounds,
\* an overflow check
Panic == [tag |-> "Panic"]

\* normal return of an operation that can abort
Returns(v) == [tag |-> "Returns", val |-> v]

---------------------------------------------------------------------------
(* Machine integers *)

RECURSIVE BitAnd(_, _)
\* a & b on naturals
BitAnd(a, b) ==
    IF a = 0 \/ b = 0 THEN 0
    ELSE (a % 2) * (b % 2) + 2 * BitAnd(a \div 2, b \div 2)

RECURSIVE BitOr(_, _)
\* a | b on naturals
BitOr(a, b) ==
    IF a = 0 THEN b
    ELSE IF b = 0 THEN a
    ELSE (IF a % 2 = 1 \/ b % 2 = 1 THEN 1 ELSE 0) + 2 * BitOr(a \div 2, b \div 2)

\* a u32 from its halves
U32(hi, lo) == [hi |-> hi, lo |-> lo]

\* `x as u32` for a u8 or u16 x
U32_from(x) == U32(0, x)

\* u32 & u32
U32_and(a, b) == U32(BitAnd(a.hi, b.hi), BitAnd(a.lo, b.lo))

\* u32 | u32
U32_or(a, b) == U32(BitOr(a.hi, b.hi), BitOr(a.lo, b.lo))

\* u32 << n, 0 <= n < 32: bits shifted past bit 31 are lost
U32_shl(v, n) ==
    IF n < 16
    THEN U32(((v.hi * 2^n) % 65536) + ((v.lo * 2^n) \div 65536), (v.lo * 2^n) % 65536)
    ELSE U32((v.lo * 2^(n - 16)) % 65536, 0)

\* u32 >> n, 0 <= n < 32
U32_shr(v, n) ==
    IF n < 16
    THEN U32(v.hi \div 2^n, (v.lo \div 2^n) + (v.hi % 2^n) * 2^(16 - n))
    ELSE U32(0, v.hi \div 2^(n - 16))

\* u32::to_le_bytes: the four bytes, least significant first
u32_to_le_bytes(v) == <<v.lo % 256, v.lo \div 256, v.hi % 256, v.hi \div 256>>

\* u32::from_le_bytes
u32_from_le_bytes(b) == U32(b[3] + 256 * b[4], b[1] + 256 * b[2])

\* u16::to_le_bytes
u16_to_le_bytes(v) == <<v % 256, v \div 256>>

\* u16::from_le_bytes
u16_from_le_bytes(b) == b[1] + 256 * b[2]

---------------------------------------------------------------------------
(* nibble.rs *)

\* Nibble::from_u8: the lower 4 bits
Nibble_from_u8(v) == BitAnd(v, 15)

\* Nibble::try_from_u8: the arms 0x0..=0xF give the nibble, every other byte
\* None
Nibble_try_from_u8(v) == IF v \in 0..15 THEN Some(v) ELSE None

\* Nibble::from_u8_upper matching on v & 0x70, the top bit of the byte lost
Nibble_from_u8_upper_mask70(v) == BitAnd(v, 112) \div 16

\* Nibble::from_u8_upper: the match is on v & 0xF0, each arm 0xN0 gives XN
Nibble_from_u8_upper(v) == BitAnd(v, 240) \div 16

\* Nibble::as_u8
Nibble_as_u8(n) == n

\* Nibble::as_u8_upper: (self as u8) << 4
Nibble_as_u8_upper(n) == (n * 16) % 256

\* Nibble::compose: self is the lower half, upper the upper half
Nibble_compose(self, upper) == BitOr(Nibble_as_u8(self), Nibble_as_u8_upper(upper))

---------------------------------------------------------------------------
(* instruction.rs, mod encoding *)

E_from_u32(value) ==
    LET b == u32_to_le_bytes(value) IN
    [imm  |-> b[2],
     func |-> Nibble_from_u8(b[3]),
     rs2  |-> Nibble_from_u8_upper(b[3]),
     rs1  |-> Nibble_from_u8(b[4]),
     rde  |-> Nibble_from_u8_upper(b[4])]

\* E::to_u32 with the two nibbles of byte 2 composed in the wrong order
E_to_u32_swapped(self, opcode) ==
    u32_from_le_bytes(<<opcode, self.imm,
                        Nibble_compose(self.rs2, self.func),
                        Nibble_compose(self.rs1, self.rde)>>)

E_to_u32(self, opcode) ==
    u32_from_le_bytes(<<opcode, self.imm,
                        Nibble_compose(self.func, self.rs2),
                        Nibble_compose(self.rs1, self.rde)>>)

\* R::from_u32 with rs2 read from the lower nibble of byte 2
R_from_u32_rs2_low(value) ==
    LET b == u32_to_le_bytes(value) IN
    [imm |-> U32_and(U32_shr(value, 8), U32(0, 4095)).lo,
     rs2 |-> Nibble_from_u8(b[3]),
     rs1 |-> Nibble_from_u8(b[4]),
     rde |-> Nibble_from_u8_upper(b[4])]

R_from_u32(value) ==
    LET b == u32_to_le_bytes(value) IN
    [imm |-> U32_and(U32_shr(value, 8), U32(0, 4095)).lo,
     rs2 |-> Nibble_from_u8_upper(b[3]),
     rs1 |-> Nibble_from_u8(b[4]),
     rde |-> Nibble_from_u8_upper(b[4])]

R_to_u32(self, opcode) ==
    LET imm == u16_to_le_bytes(self.imm) IN
    u32_from_le_bytes(<<opcode, imm[1],
                        Nibble_compose(Nibble_from_u8(imm[2]), self.rs2),
                        Nibble_compose(self.rs1, self.rde)>>)

M_from_u32(value) ==
    LET b == u32_to_le_bytes(value) IN
    [imm |-> u16_from_le_bytes(<<b[2], b[3]>>),
     rs1 |-> Nibble_from_u8(b[4]),
     rde |-> Nibble_from_u8_upper(b[4])]

M_to_u32(self, opcode) ==
    LET imm == u16_to_le_bytes(self.imm) IN
    u32_from_le_bytes(<<opcode, imm[1], imm[2], Nibble_compose(self.rs1, self.rde)>>)

\* F::from_u32 with func and rde read from each other's nibble
F_from_u32_swapped(value) ==
    LET b == u32_to_le_bytes(value) IN
    [imm  |-> u16_from_le_bytes(<<b[2], b[3]>>),
     func |-> Nibble_from_u8_upper(b[4]),
     rde  |-> Nibble_from_u8(b[4])]

F_from_u32(value) ==
    LET b == u32_to_le_bytes(value) IN
    [imm  |-> u16_from_le_bytes(<<b[2], b[3]>>),
     func |-> Nibble_from_u8(b[4]),
     rde  |-> Nibble_from_u8_upper(b[4])]

F_to_u32(self, opcode) ==
    LET imm == u16_to_le_bytes(self.imm) IN
    u32_from_le_bytes(<<opcode, imm[1], imm[2], Nibble_compose(self.func, self.rde)>>)

\* B::from_u32 with the immediate masked to 16 bits, 0x0000_FFFF
B_from_u32_mask16(value) ==
    LET b == u32_to_le_bytes(value) IN
    [imm  |-> U32_and(U32_shr(value, 8), U32(0, 65535)),
     func |-> Nibble_from_u8_upper(b[4])]

\* imm is a u32: (value >> 8) & 0x000F_FFFF
B_from_u32(value) ==
    LET b == u32_to_le_bytes(value) IN
    [imm  |-> U32_and(U32_shr(value, 8), U32(15, 65535)),
     func |-> Nibble_from_u8_upper(b[4])]

\* (opcode as u32) | (imm << 8) | ((func.as_u8() as u32) << 28): imm is not masked
B_to_u32(self, opcode) ==
    U32_or(U32_or(U32_from(opcode), U32_shl(self.imm, 8)),
           U32_shl(U32_from(Nibble_as_u8(self.func)), 28))

\* Instruction::opcode
Instruction_opcode(self) == u32_to_le_bytes(self)[1]

\* Instruction::nth_nibble with the two halves of a byte exchanged
nth_nibble_swapped(self, idx) ==
    IF idx \div 2 >= 4 THEN Panic
    ELSE IF idx % 2 = 0
         THEN Returns(Nibble_from_u8_upper(u32_to_le_bytes(self)[idx \div 2 + 1]))
         ELSE Returns(Nibble_from_u8(u32_to_le_bytes(self)[idx \div 2 + 1]))

\* Instruction::nth_nibble: the array of four bytes is indexed by idx / 2,
\* which aborts when it is out of bounds
nth_nibble(self, idx) ==
    IF idx \div 2 >= 4 THEN Panic
    ELSE IF idx % 2 = 0
         THEN Returns(Nibble_from_u8(u32_to_le_bytes(self)[idx \div 2 + 1]))
         ELSE Returns(Nibble_from_u8_upper(u32_to_le_bytes(self)[idx \div 2 + 1]))

Formats == {"E", "R", "M", "F", "B"}

\* Instruction::e / r / m / f / b, by format name
from_u32(fmt, value) ==
    CASE fmt = "E" -> E_from_u32(value)
      [] fmt = "R" -> R_from_u32(value)
      [] fmt = "M" -> M_from_u32(value)
      [] fmt = "F" -> F_from_u32(value)
      [] fmt = "B" -> B_from_u32(value)

\* X::to_u32, by format name
to_u32(fmt, self, opcode) ==
    CASE fmt = "E" -> E_to_u32(self, opcode)
      [] fmt = "R" -> R_to_u32(self, opcode)
      [] fmt = "M" -> M_to_u32(self, opcode)
      [] fmt = "F" -> F_to_u32(self, opcode)
      [] fmt = "B" -> B_to_u32(self, opcode)

---------------------------------------------------------------------------
(* Inputs of the encoding formats *)

\* 0x00000000 0x000FFFFF 0x00100000 0xFFFFFFFF 0x000ABCDE 0x80000000 0x0F0F0001 0x7FF00000
U32Table == <<U32(0, 0), U32(15, 65535), U32(16, 0), U32(65535, 65535),
              U32(10, 48350), U32(32768, 0), U32(3855, 1), U32(32752, 0)>>
U32Sample == {U32Table[k] : k \in 1..NumImms}

\* every word whose four bytes are sample bytes
WordSample ==
    {u32_from_le_bytes(<<b0, b1, b2, b3>>) :
        b0 \in ByteSample, b1 \in ByteSample, b2 \in ByteSample, b3 \in ByteSample}

\* the records of a format: every field ranges over samples of its storage type
Records(fmt) ==
    CASE fmt = "E" -> [imm : ByteSample, func : NibbleSample, rs2 : NibbleSample,
                       rs1 : NibbleSample, rde : NibbleSample]
      [] fmt = "R" -> [imm : U16Sample, rs2 : NibbleSample, rs1 : NibbleSample,
                       rde : NibbleSample]
      [] fmt = "M" -> [imm : U16Sample, rs1 : NibbleSample, rde : NibbleSample]
      [] fmt = "F" -> [imm : U16Sample, func : NibbleSample, rde : NibbleSample]
      [] fmt = "B" -> [imm : U32Sample, func : NibbleSample]

WordInputs == {[kind |-> "u32", fmt |-> f, w |-> w] : f \in Formats, w \in WordSample}

\* nibble positions asked of nth_nibble: the consecutive ones and a large usize
IdxSample == (0..MaxIdx) \cup {2147483647}

\* the words asked for a nibble: the sample words and 0x01234567
NthInputs ==
    {[kind |-> "nth", w |-> w, idx |-> idx] :
        w \in WordSample \cup {U32(291, 17767)}, idx \in IdxSample}

RecordInputs ==
    UNION {{[kind |-> "record", fmt |-> f, rec |-> r, opcode |-> o] :
                r \in Records(f), o \in ByteSample} : f \in Formats}

---------------------------------------------------------------------------
(* The encoding formats as a state machine: a word is decoded and encoded  *)
(* again with its own opcode; a record is encoded and decoded again.       *)

InitEncoding ==
    /\ \/ input \in WordInputs
       \/ input \in RecordInputs
       \/ input \in NthInputs
    /\ pc = "start"
    /\ mid = None
    /\ result = None

\* X::from_u32 of the input word
Decode ==
    /\ pc = "start"
    /\ input.kind = "u32"
    /\ mid' = from_u32(input.fmt, input.w)
    /\ pc' = "decoded"
    /\ UNCHANGED <<input, result>>

\* X::to_u32 of the decoded record, with the opcode of the input word
Reencode ==
    /\ pc = "decoded"
    /\ result' = to_u32(input.fmt, mid, Instruction_opcode(input.w))
    /\ pc' = "reencoded"
    /\ UNCHANGED <<input, mid>>

\* X::to_u32 of the input record
Encode ==
    /\ pc = "start"
    /\ input.kind = "record"
    /\ mid' = to_u32(input.fmt, input.rec, input.opcode)
    /\ pc' = "encoded"
    /\ UNCHANGED <<input, result>>

\* X::from_u32 of the encoded word
Redecode ==
    /\ pc = "encoded"
    /\ result' = from_u32(input.fmt, mid)
    /\ pc' = "redecoded"
    /\ UNCHANGED <<input, mid>>

\* Instruction::nth_nibble of the input word
NthNibble ==
    /\ pc = "start"
    /\ input.kind = "nth"
    /\ result' = nth_nibble(input.w, input.idx)
    /\ pc' = "nibble"
    /\ UNCHANGED <<input, mid>>

NextEncoding == Decode \/ Reencode \/ Encode \/ Redecode \/ NthNibble

SpecEncoding == InitEncoding /\ [][NextEncoding]_vars

---------------------------------------------------------------------------
(* The wire format, read bit by bit (the table of mod encoding) *)

\* bit i of a u32, i in 0..31
BitAt(w, i) == IF i < 16 THEN (w.lo \div 2^i) % 2 ELSE (w.hi \div 2^(i - 16)) % 2

RECURSIVE Bits(_, _, _)
\* the number formed by bits a..b of w (bit a the least significant), b - a < 16
Bits(w, a, b) == IF a > b THEN 0 ELSE BitAt(w, a) + 2 * Bits(w, a + 1, b)

\* the declared width of the immediate of a format
ImmWidth(fmt) ==
    CASE fmt = "E" -> 8 [] fmt = "R" -> 12 [] fmt = "M" -> 16 [] fmt = "F" -> 16
      [] fmt = "B" -> 20

\* the immediate of a record fits the declared width of its format
ImmFits(fmt, rec) ==
    IF fmt = "B" THEN rec.imm.hi < 16 ELSE rec.imm < 2^ImmWidth(fmt)

---------------------------------------------------------------------------
(* Claims about the encoding formats *)

\* C1: decoding a word in any format and encoding the record again with the
\* word's own opcode byte gives the word back.
C1_WordRoundTrip == pc = "reencoded" => result = input.w

C1_Witness ==
    /\ pc = "reencoded"
    /\ input.fmt = "B"
    /\ input.w = U32(65445, 42330)
    /\ result = input.w

\* C2: encoding a record whose immediate fits its declared width and decoding
\* the word gives a record equal field by field, and the low byte of the
\* encoded word is the supplied opcode.
C2_FieldRoundTrip ==
    (pc = "redecoded" /\ ImmFits(input.fmt, input.rec)) =>
        /\ result = input.rec
        /\ Instruction_opcode(mid) = input.opcode

C2_Witness ==
    /\ pc = "redecoded"
    /\ input.fmt = "R"
    /\ input.rec.imm = 4095
    /\ input.rec.rs2 = 10
    /\ input.opcode = 165
    /\ result = input.rec

\* C3: to_u32 with any value of the immediate's storage type gives a word
\* whose opcode byte is the supplied opcode and whose register and func
\* nibbles are the record's: the immediate never alters a neighbouring field.
C3_EncodeMasksFields ==
    pc = "encoded" =>
        /\ Bits(mid, 0, 7) = input.opcode
        /\ input.fmt \in {"E", "R", "M", "F"} => Bits(mid, 28, 31) = input.rec.rde
        /\ input.fmt \in {"E", "R", "M"} => Bits(mid, 24, 27) = input.rec.rs1
        /\ input.fmt \in {"E", "R"} => Bits(mid, 20, 23) = input.rec.rs2
        /\ input.fmt = "E" => Bits(mid, 16, 19) = input.rec.func
        /\ input.fmt = "F" => Bits(mid, 24, 27) = input.rec.func
        /\ input.fmt = "B" => Bits(mid, 28, 31) = input.rec.func

\* C4: from_u32 reads every field from the bit positions of the wire-format
\* table, and Instruction::opcode is bits 0..7.
C4_FieldPositions ==
    pc = "decoded" =>
        /\ Instruction_opcode(input.w) = Bits(input.w, 0, 7)
        /\ input.fmt = "E" =>
              mid = [imm |-> Bits(input.w, 8, 15), func |-> Bits(input.w, 16, 19),
                     rs2 |-> Bits(input.w, 20, 23), rs1 |-> Bits(input.w, 24, 27),
                     rde |-> Bits(input.w, 28, 31)]
        /\ input.fmt = "R" =>
              mid = [imm |-> Bits(input.w, 8, 19), rs2 |-> Bits(input.w, 20, 23),
                     rs1 |-> Bits(input.w, 24, 27), rde |-> Bits(input.w, 28, 31)]
        /\ input.fmt = "M" =>
              mid = [imm |-> Bits(input.w, 8, 23), rs1 |-> Bits(input.w, 24, 27),
                     rde |-> Bits(input.w, 28, 31)]
        /\ input.fmt = "F" =>
              mid = [imm |-> Bits(input.w, 8, 23), func |-> Bits(input.w, 24, 27),
                     rde |-> Bits(input.w, 28, 31)]
        /\ input.fmt = "B" =>
              mid = [imm |-> U32(Bits(input.w, 24, 27), Bits(input.w, 8, 23)),
                     func |-> Bits(input.w, 28, 31)]

C4_Witness ==
    /\ pc = "decoded"
    /\ input.fmt = "E"
    /\ input.w = U32(42495, 23205)
    /\ mid = [imm |-> 90, func |-> 15, rs2 |-> 15, rs1 |-> 5, rde |-> 10]

\* C27: nth_nibble(idx) of a word returns, for idx in 0..=7, the nibble formed
\* by bits 4*idx .. 4*idx+3 of the word, and aborts for idx >= 8.
C27_NthNibble ==
    pc = "nibble" =>
        IF input.idx <= 7
        THEN result = Returns(Bits(input.w, 4 * input.idx, 4 * input.idx + 3))
        ELSE result = Panic

\* Instruction(0x01234567).nth_nibble(1) is X6
C27_Witness ==
    /\ pc = "nibble"
    /\ input.w = U32(291, 17767)
    /\ input.idx = 1
    /\ result = Returns(6)

---------------------------------------------------------------------------
(* registers.rs, interrupt.rs *)

\* Register::from_nibble
Register_from_nibble(v) ==
    CASE v = 0 -> "Rz" [] v = 1 -> "Ra" [] v = 2 -> "Rb" [] v = 3 -> "Rc"
      [] v = 4 -> "Rd" [] v = 5 -> "Re" [] v = 6 -> "Rf" [] v = 7 -> "Rg"
      [] v = 8 -> "Rh" [] v = 9 -> "Ri" [] v = 10 -> "Rj" [] v = 11 -> "Rk"
      [] v = 12 -> "Ip" [] v = 13 -> "Sp" [] v = 14 -> "Fp" [] v = 15 -> "St"

\* Register::to_u8: the discriminant of the enum
Register_to_u8(self) ==
    [Rz |-> 0, Ra |-> 1, Rb |-> 2, Rc |-> 3, Rd |-> 4, Re |-> 5, Rf |-> 6, Rg |-> 7,
     Rh |-> 8, Ri |-> 9, Rj |-> 10, Rk |-> 11, Ip |-> 12, Sp |-> 13, Fp |-> 14,
     St |-> 15][self]

\* Interrupt::try_from_u16 truncating instead of checking the high byte
Interrupt_try_from_u16_truncating(value) ==
    LET b == u16_to_le_bytes(value) IN
    Some(b[1])

\* Interrupt::try_from_u16: Interrupt(low byte) when the high byte is 0
Interrupt_try_from_u16(value) ==
    LET b == u16_to_le_bytes(value) IN
    IF b[2] = 0 THEN Some(b[1]) ELSE None

---------------------------------------------------------------------------
(* instruction.rs, mod instruction_set: the sub-code enums *)

\* the discriminants of enum BranchCond
BranchCond_code(cc) ==
    [Bra |-> 0, Beq |-> 1, Bez |-> 2, Blt |-> 3, Ble |-> 4, Bltu |-> 5, Bleu |-> 6,
     Bne |-> 9, Bnz |-> 10, Bge |-> 11, Bgt |-> 12, Bgeu |-> 13, Bgtu |-> 14][cc]

\* BranchCond::try_from_nibble with the arm of Nibble::X9 missing
BranchCond_try_from_nibble_no9(value) ==
    CASE value = 0 -> Some("Bra") [] value = 1 -> Some("Beq")
      [] value = 2 -> Some("Bez") [] value = 3 -> Some("Blt")
      [] value = 4 -> Some("Ble") [] value = 5 -> Some("Bltu")
      [] value = 6 -> Some("Bleu")
      [] value = 10 -> Some("Bnz") [] value = 11 -> Some("Bge")
      [] value = 12 -> Some("Bgt") [] value = 13 -> Some("Bgeu")
      [] value = 14 -> Some("Bgtu")
      [] OTHER -> None

BranchCond_try_from_nibble(value) ==
    CASE value = 0 -> Some("Bra") [] value = 1 -> Some("Beq")
      [] value = 2 -> Some("Bez") [] value = 3 -> Some("Blt")
      [] value = 4 -> Some("Ble") [] value = 5 -> Some("Bltu")
      [] value = 6 -> Some("Bleu") [] value = 9 -> Some("Bne")
      [] value = 10 -> Some("Bnz") [] value = 11 -> Some("Bge")
      [] value = 12 -> Some("Bgt") [] value = 13 -> Some("Bgeu")
      [] value = 14 -> Some("Bgtu")
      [] OTHER -> None

\* the discriminants of enum LiType
LiType_code(t) ==
    [Lli |-> 0, Llis |-> 1, Lui |-> 2, Luis |-> 3, Lti |-> 4, Ltis |-> 5,
     Ltui |-> 6, Ltuis |-> 7][t]

\* LiType::try_from_nibble with an arm for Nibble::X8
LiType_try_from_nibble_x8(value) ==
    CASE value = 0 -> Some("Lli") [] value = 1 -> Some("Llis")
      [] value = 2 -> Some("Lui") [] value = 3 -> Some("Luis")
      [] value = 4 -> Some("Lti") [] value = 5 -> Some("Ltis")
      [] value = 6 -> Some("Ltui") [] value = 7 -> Some("Ltuis")
      [] value = 8 -> Some("Lli")
      [] OTHER -> None

LiType_try_from_nibble(value) ==
    CASE value = 0 -> Some("Lli") [] value = 1 -> Some("Llis")
      [] value = 2 -> Some("Lui") [] value = 3 -> Some("Luis")
      [] value = 4 -> Some("Lti") [] value = 5 -> Some("Ltis")
      [] value = 6 -> Some("Ltui") [] value = 7 -> Some("Ltuis")
      [] OTHER -> None

\* the discriminants of enum FloatPrecision
FloatPrecision_code(p) == [F16 |-> 0, F32 |-> 1, F64 |-> 2][p]

FloatPrecision_try_from_u8(value) ==
    CASE value = 0 -> Some("F16") [] value = 1 -> Some("F32")
      [] value = 2 -> Some("F64")
      [] OTHER -> None

\* FloatPrecision::try_from_nibble with X3 taken as a fourth precision tag
FloatPrecision_try_from_nibble_x3(value) ==
    CASE value = 0 -> Some("F16") [] value = 1 -> Some("F32")
      [] value = 2 -> Some("F64") [] value = 3 -> Some("F64")
      [] OTHER -> None

FloatPrecision_try_from_nibble(value) ==
    CASE value = 0 -> Some("F16") [] value = 1 -> Some("F32")
      [] value = 2 -> Some("F64")
      [] OTHER -> None

\* FloatCastType::try_from_nibble: to from (value as u8) & 0x11, from from
\* (value as u8) >> 2
FloatCastType_try_from_nibble(value) ==
    LET to   == FloatPrecision_try_from_u8(BitAnd(Nibble_as_u8(value), 17))
        from == FloatPrecision_try_from_u8(Nibble_as_u8(value) \div 4)
    IN  IF to # None /\ from # None
        THEN Some([to |-> to.val, from |-> from.val])
        ELSE None

---------------------------------------------------------------------------
(* instruction.rs, InstructionSet::try_from_instruction.  A variant is a    *)
(* record whose field op names it; the arms of the match on the opcode are *)
(* the operators Decode_..., in the order of the source.                   *)

\* 0x01, System Control: the ? on imm8 is evaluated in the arm of X0 only
Decode_system(i) ==
    LET f    == F_from_u32(i)
        imm8 == Interrupt_try_from_u16(f.imm)
        rd   == Register_from_nibble(f.rde)
    IN  CASE f.func = 0 -> IF imm8 = None THEN None
                           ELSE Some([op |-> "Int", imm8 |-> imm8.val])
          [] f.func = 1 -> Some([op |-> "Iret"])
          [] f.func = 2 -> Some([op |-> "Ires"])
          [] f.func = 3 -> Some([op |-> "Usr", rd |-> rd])
          [] OTHER -> None

\* 0x02..=0x05, Input & Output
Decode_io(i, opcode) ==
    LET m     == M_from_u32(i)
        rs    == Register_from_nibble(m.rs1)
        rd    == Register_from_nibble(m.rde)
        imm16 == m.imm
    IN  CASE opcode = 2 -> Some([op |-> "Outr", rd |-> rd, rs |-> rs])
          [] opcode = 3 -> Some([op |-> "Outi", imm16 |-> imm16, rs |-> rs])
          [] opcode = 4 -> Some([op |-> "Inr", rd |-> rd, rs |-> rs])
          [] opcode = 5 -> Some([op |-> "Ini", rd |-> rd, imm16 |-> imm16])
          [] OTHER -> Panic

\* the control-flow arm with Ret accepted only when the fields it does not
\* carry are zero
Decode_control_ret_zero(i, opcode) ==
    LET m  == M_from_u32(i)
        rs == Register_from_nibble(m.rs1)
        rd == Register_from_nibble(m.rde)
    IN  CASE opcode = 6 -> Some([op |-> "Jal", rs |-> rs, imm16 |-> m.imm])
          [] opcode = 7 -> Some([op |-> "Jalr", rd |-> rd, rs |-> rs, imm16 |-> m.imm])
          [] opcode = 8 -> IF m.imm = 0 /\ m.rs1 = 0 /\ m.rde = 0
                           THEN Some([op |-> "Ret"]) ELSE None
          [] opcode = 9 -> Some([op |-> "Retr", rs |-> rs])
          [] OTHER -> Panic

\* 0x06..=0x09, Control Flow
Decode_control(i, opcode) ==
    LET m  == M_from_u32(i)
        rs == Register_from_nibble(m.rs1)
        rd == Register_from_nibble(m.rde)
    IN  CASE opcode = 6 -> Some([op |-> "Jal", rs |-> rs, imm16 |-> m.imm])
          [] opcode = 7 -> Some([op |-> "Jalr", rd |-> rd, rs |-> rs, imm16 |-> m.imm])
          [] opcode = 8 -> Some([op |-> "Ret"])
          [] opcode = 9 -> Some([op |-> "Retr", rs |-> rs])
          [] OTHER -> Panic

\* 0x0A, Branch
Decode_branch(i) ==
    LET b  == B_from_u32(i)
        cc == BranchCond_try_from_nibble(b.func)
    IN  IF cc = None THEN None
        ELSE Some([op |-> "Branch", cc |-> cc.val, imm20 |-> b.imm])

\* 0x0B..=0x0E, Stack Operations
Decode_stack(i, opcode) ==
    CASE opcode = 11 -> Some([op |-> "Push", rs |-> Register_from_nibble(M_from_u32(i).rs1)])
      [] opcode = 12 -> Some([op |-> "Pop", rd |-> Register_from_nibble(M_from_u32(i).rde)])
      [] opcode = 13 -> Some([op |-> "Enter"])
      [] opcode = 14 -> Some([op |-> "Leave"])

\* 0x10, load immediate
Decode_li(i) ==
    LET f    == F_from_u32(i)
        func == LiType_try_from_nibble(f.func)
        rd   == Register_from_nibble(f.rde)
    IN  IF func = None THEN None
        ELSE Some([op |-> "Li", rd |-> rd, func |-> func.val, imm |-> f.imm])

\* the loads and stores with the base and the index register read from each
\* other's field
Decode_mem_swapped(i, opcode) ==
    LET e  == E_from_u32(i)
        rn == Register_from_nibble(e.rs1)
        rs == Register_from_nibble(e.rs2)
        rd == Register_from_nibble(e.rde)
    IN
        CASE opcode = 17 -> Some([op |-> "Lw", rd |-> rd, rs |-> rs, rn |-> rn, sh |-> e.func, off |-> e.imm])
          [] opcode = 18 -> Some([op |-> "Lh", rd |-> rd, rs |-> rs, rn |-> rn, sh |-> e.func, off |-> e.imm])
          [] opcode = 19 -> Some([op |-> "Lhs", rd |-> rd, rs |-> rs, rn |-> rn, sh |-> e.func, off |-> e.imm])
          [] opcode = 20 -> Some([op |-> "Lq", rd |-> rd, rs |-> rs, rn |-> rn, sh |-> e.func, off |-> e.imm])
          [] opcode = 21 -> Some([op |-> "Lqs", rd |-> rd, rs |-> rs, rn |-> rn, sh |-> e.func, off |-> e.imm])
          [] opcode = 22 -> Some([op |-> "Lb", rd |-> rd, rs |-> rs, rn |-> rn, sh |-> e.func, off |-> e.imm])
          [] opcode = 23 -> Some([op |-> "Lbs", rd |-> rd, rs |-> rs, rn |-> rn, sh |-> e.func, off |-> e.imm])
          [] opcode = 24 -> Some([op |-> "Sw", rd |-> rd, rs |-> rs, rn |-> rn, sh |-> e.func, off |-> e.imm])
          [] opcode = 25 -> Some([op |-> "Sh", rd |-> rd, rs |-> rs, rn |-> rn, sh |-> e.func, off |-> e.imm])
          [] opcode = 26 -> Some([op |-> "Sq", rd |-> rd, rs |-> rs, rn |-> rn, sh |-> e.func, off |-> e.imm])
          [] opcode = 27 -> Some([op |-> "Sb", rd |-> rd, rs |-> rs, rn |-> rn, sh |-> e.func, off |-> e.imm])
          [] OTHER -> Panic

\* 0x11..=0x1B, loads and stores
Decode_mem(i, opcode) ==
    LET e  == E_from_u32(i)
        rn == Register_from_nibble(e.rs2)
        rs == Register_from_nibble(e.rs1)
        rd == Register_from_nibble(e.rde)
    IN
        CASE opcode = 17 -> Some([op |-> "Lw", rd |-> rd, rs |-> rs, rn |-> rn, sh |-> e.func, off |-> e.imm])
          [] opcode = 18 -> Some([op |-> "Lh", rd |-> rd, rs |-> rs, rn |-> rn, sh |-> e.func, off |-> e.imm])
          [] opcode = 19 -> Some([op |-> "Lhs", rd |-> rd, rs |-> rs, rn |-> rn, sh |-> e.func, off |-> e.imm])
          [] opcode = 20 -> Some([op |-> "Lq", rd |-> rd, rs |-> rs, rn |-> rn, sh |-> e.func, off |-> e.imm])
          [] opcode = 21 -> Some([op |-> "Lqs", rd |-> rd, rs |-> rs, rn |-> rn, sh |-> e.func, off |-> e.imm])
          [] opcode = 22 -> Some([op |-> "Lb", rd |-> rd, rs |-> rs, rn |-> rn, sh |-> e.func, off |-> e.imm])
          [] opcode = 23 -> Some([op |-> "Lbs", rd |-> rd, rs |-> rs, rn |-> rn, sh |-> e.func, off |-> e.imm])
          [] opcode = 24 -> Some([op |-> "Sw", rd |-> rd, rs |-> rs, rn |-> rn, sh |-> e.func, off |-> e.imm])
          [] opcode = 25 -> Some([op |-> "Sh", rd |-> rd, rs |-> rs, rn |-> rn, sh |-> e.func, off |-> e.imm])
          [] opcode = 26 -> Some([op |-> "Sq", rd |-> rd, rs |-> rs, rn |-> rn, sh |-> e.func, off |-> e.imm])
          [] opcode = 27 -> Some([op |-> "Sb", rd |-> rd, rs |-> rs, rn |-> rn, sh |-> e.func, off |-> e.imm])
          [] OTHER -> Panic

\* 0x1E, compare registers
Decode_cmpr(i) ==
    LET r1 == Register_from_nibble(M_from_u32(i).rde)
        r2 == Register_from_nibble(M_from_u32(i).rs1)
    IN  Some([op |-> "Cmpr", r1 |-> r1, r2 |-> r2])

\* the compare-immediate arm taking every non-zero func nibble as s = true
Decode_cmpi_any_func(i) ==
    LET f  == F_from_u32(i)
        r1 == Register_from_nibble(f.rde)
    IN  CASE f.func = 0 -> Some([op |-> "Cmpi", r1 |-> r1, s |-> FALSE, imm |-> f.imm])
          [] OTHER -> Some([op |-> "Cmpi", r1 |-> r1, s |-> TRUE, imm |-> f.imm])

\* 0x1F, compare with an immediate
Decode_cmpi(i) ==
    LET f  == F_from_u32(i)
        r1 == Register_from_nibble(f.rde)
    IN  CASE f.func = 0 -> Some([op |-> "Cmpi", r1 |-> r1, s |-> FALSE, imm |-> f.imm])
          [] f.func = 1 -> Some([op |-> "Cmpi", r1 |-> r1, s |-> TRUE, imm |-> f.imm])
          [] OTHER -> None

\* 0x20..=0x3F if opcode % 2 == 0: register-register forms, format R
Decode_reg(i, opcode) ==
    LET r  == R_from_u32(i)
        rd == Register_from_nibble(r.rde)
        r1 == Register_from_nibble(r.rs1)
        r2 == Register_from_nibble(r.rs2)
    IN
        CASE opcode = 32 -> Some([op |-> "Addr", rd |-> rd, r1 |-> r1, r2 |-> r2])
          [] opcode = 34 -> Some([op |-> "Subr", rd |-> rd, r1 |-> r1, r2 |-> r2])
          [] opcode = 36 -> Some([op |-> "Imulr", rd |-> rd, r1 |-> r1, r2 |-> r2])
          [] opcode = 38 -> Some([op |-> "Idivr", rd |-> rd, r1 |-> r1, r2 |-> r2])
          [] opcode = 40 -> Some([op |-> "Umulr", rd |-> rd, r1 |-> r1, r2 |-> r2])
          [] opcode = 42 -> Some([op |-> "Udivr", rd |-> rd, r1 |-> r1, r2 |-> r2])
          [] opcode = 44 -> Some([op |-> "Remr", rd |-> rd, r1 |-> r1, r2 |-> r2])
          [] opcode = 46 -> Some([op |-> "Modr", rd |-> rd, r1 |-> r1, r2 |-> r2])
          [] opcode = 48 -> Some([op |-> "Andr", rd |-> rd, r1 |-> r1, r2 |-> r2])
          [] opcode = 50 -> Some([op |-> "Orr", rd |-> rd, r1 |-> r1, r2 |-> r2])
          [] opcode = 52 -> Some([op |-> "Norr", rd |-> rd, r1 |-> r1, r2 |-> r2])
          [] opcode = 54 -> Some([op |-> "Xorr", rd |-> rd, r1 |-> r1, r2 |-> r2])
          [] opcode = 56 -> Some([op |-> "Shlr", rd |-> rd, r1 |-> r1, r2 |-> r2])
          [] opcode = 58 -> Some([op |-> "Asrr", rd |-> rd, r1 |-> r1, r2 |-> r2])
          [] opcode = 60 -> Some([op |-> "Lsrr", rd |-> rd, r1 |-> r1, r2 |-> r2])
          [] opcode = 62 -> Some([op |-> "Bitr", rd |-> rd, r1 |-> r1, r2 |-> r2])
          [] OTHER -> Panic

\* the register-immediate forms with the arm of 0x3F missing, so that the
\* opcode falls to the unreachable!() arm
Decode_imm_no3F(i, opcode) ==
    LET m  == M_from_u32(i)
        rd == Register_from_nibble(m.rde)
        r1 == Register_from_nibble(m.rs1)
    IN
        CASE opcode = 33 -> Some([op |-> "Addi", rd |-> rd, r1 |-> r1, imm16 |-> m.imm])
          [] opcode = 35 -> Some([op |-> "Subi", rd |-> rd, r1 |-> r1, imm16 |-> m.imm])
          [] opcode = 37 -> Some([op |-> "Imuli", rd |-> rd, r1 |-> r1, imm16 |-> m.imm])
          [] opcode = 39 -> Some([op |-> "Idivi", rd |-> rd, r1 |-> r1, imm16 |-> m.imm])
          [] opcode = 41 -> Some([op |-> "Umuli", rd |-> rd, r1 |-> r1, imm16 |-> m.imm])
          [] opcode = 43 -> Some([op |-> "Udivi", rd |-> rd, r1 |-> r1, imm16 |-> m.imm])
          [] opcode = 45 -> Some([op |-> "Remi", rd |-> rd, r1 |-> r1, imm16 |-> m.imm])
          [] opcode = 47 -> Some([op |-> "Modi", rd |-> rd, r1 |-> r1, imm16 |-> m.imm])
          [] opcode = 49 -> Some([op |-> "Andi", rd |-> rd, r1 |-> r1, imm16 |-> m.imm])
          [] opcode = 51 -> Some([op |-> "Ori", rd |-> rd, r1 |-> r1, imm16 |-> m.imm])
          [] opcode = 53 -> Some([op |-> "Nori", rd |-> rd, r1 |-> r1, imm16 |-> m.imm])
          [] opcode = 55 -> Some([op |-> "Xori", rd |-> rd, r1 |-> r1, imm16 |-> m.imm])
          [] opcode = 57 -> Some([op |-> "Shli", rd |-> rd, r1 |-> r1, imm16 |-> m.imm])
          [] opcode = 59 -> Some([op |-> "Asri", rd |-> rd, r1 |-> r1, imm16 |-> m.imm])
          [] opcode = 61 -> Some([op |-> "Lsri", rd |-> rd, r1 |-> r1, imm16 |-> m.imm])
          [] OTHER -> Panic

\* 0x20..=0x3F otherwise: register-immediate forms, format M
Decode_imm(i, opcode) ==
    LET m  == M_from_u32(i)
        rd == Register_from_nibble(m.rde)
        r1 == Register_from_nibble(m.rs1)
    IN
        CASE opcode = 33 -> Some([op |-> "Addi", rd |-> rd, r1 |-> r1, imm16 |-> m.imm])
          [] opcode = 35 -> Some([op |-> "Subi", rd |-> rd, r1 |-> r1, imm16 |-> m.imm])
          [] opcode = 37 -> Some([op |-> "Imuli", rd |-> rd, r1 |-> r1, imm16 |-> m.imm])
          [] opcode = 39 -> Some([op |-> "Idivi", rd |-> rd, r1 |-> r1, imm16 |-> m.imm])
          [] opcode = 41 -> Some([op |-> "Umuli", rd |-> rd, r1 |-> r1, imm16 |-> m.imm])
          [] opcode = 43 -> Some([op |-> "Udivi", rd |-> rd, r1 |-> r1, imm16 |-> m.imm])
          [] opcode = 45 -> Some([op |-> "Remi", rd |-> rd, r1 |-> r1, imm16 |-> m.imm])
          [] opcode = 47 -> Some([op |-> "Modi", rd |-> rd, r1 |-> r1, imm16 |-> m.imm])
          [] opcode = 49 -> Some([op |-> "Andi", rd |-> rd, r1 |-> r1, imm16 |-> m.imm])
          [] opcode = 51 -> Some([op |-> "Ori", rd |-> rd, r1 |-> r1, imm16 |-> m.imm])
          [] opcode = 53 -> Some([op |-> "Nori", rd |-> rd, r1 |-> r1, imm16 |-> m.imm])
          [] opcode = 55 -> Some([op |-> "Xori", rd |-> rd, r1 |-> r1, imm16 |-> m.imm])
          [] opcode = 57 -> Some([op |-> "Shli", rd |-> rd, r1 |-> r1, imm16 |-> m.imm])
          [] opcode = 59 -> Some([op |-> "Asri", rd |-> rd, r1 |-> r1, imm16 |-> m.imm])
          [] opcode = 61 -> Some([op |-> "Lsri", rd |-> rd, r1 |-> r1, imm16 |-> m.imm])
          [] opcode = 63 -> Some([op |-> "Biti", rd |-> rd, r1 |-> r1, imm16 |-> m.imm])
          [] OTHER -> Panic

\* 0x40..=0x4F, Floating Point Operations: the ? on p or pp is evaluated in
\* the arm that uses it
\* (the field p of Fcnv holds a FloatCastType, a record; it is named pp here,
\* as the local it is built from, because TLC cannot order a set that holds
\* records whose field p is a string in some and a record in others)
Decode_float(i, opcode) ==
    LET e  == E_from_u32(i)
        rd == Register_from_nibble(e.rde)
        r1 == Register_from_nibble(e.rs1)
        r2 == Register_from_nibble(e.rs2)
        p  == FloatPrecision_try_from_nibble(e.func)
        pp == FloatCastType_try_from_nibble(e.func)
    IN
        CASE opcode = 64 -> IF p = None THEN None ELSE Some([op |-> "Fcmp", r1 |-> r1, r2 |-> r2, p |-> p.val])
          [] opcode = 65 -> IF p = None THEN None ELSE Some([op |-> "Fto", rd |-> rd, rs |-> r1, p |-> p.val])
          [] opcode = 66 -> IF p = None THEN None ELSE Some([op |-> "Ffrom", rd |-> rd, rs |-> r1, p |-> p.val])
          [] opcode = 67 -> IF p = None THEN None ELSE Some([op |-> "Fneg", rd |-> rd, rs |-> r1, p |-> p.val])
          [] opcode = 68 -> IF p = None THEN None ELSE Some([op |-> "Fabs", rd |-> rd, rs |-> r1, p |-> p.val])
          [] opcode = 69 -> IF p = None THEN None ELSE Some([op |-> "Fadd", rd |-> rd, r1 |-> r1, r2 |-> r2, p |-> p.val])
          [] opcode = 70 -> IF p = None THEN None ELSE Some([op |-> "Fsub", rd |-> rd, r1 |-> r1, r2 |-> r2, p |-> p.val])
          [] opcode = 71 -> IF p = None THEN None ELSE Some([op |-> "Fmul", rd |-> rd, r1 |-> r1, r2 |-> r2, p |-> p.val])
          [] opcode = 72 -> IF p = None THEN None ELSE Some([op |-> "Fdiv", rd |-> rd, r1 |-> r1, r2 |-> r2, p |-> p.val])
          [] opcode = 73 -> IF p = None THEN None ELSE Some([op |-> "Fma", rd |-> rd, r1 |-> r1, r2 |-> r2, p |-> p.val])
          [] opcode = 74 -> IF p = None THEN None ELSE Some([op |-> "Fsqrt", rd |-> rd, r1 |-> r1, p |-> p.val])
          [] opcode = 75 -> IF p = None THEN None ELSE Some([op |-> "Fmin", rd |-> rd, r1 |-> r1, r2 |-> r2, p |-> p.val])
          [] opcode = 76 -> IF p = None THEN None ELSE Some([op |-> "Fmax", rd |-> rd, r1 |-> r1, r2 |-> r2, p |-> p.val])
          [] opcode = 77 -> IF p = None THEN None ELSE Some([op |-> "Fsat", rd |-> rd, r1 |-> r1, p |-> p.val])
          [] opcode = 78 -> IF pp = None THEN None ELSE Some([op |-> "Fcnv", rd |-> rd, r1 |-> r1, pp |-> pp.val])
          [] opcode = 79 -> IF p = None THEN None ELSE Some([op |-> "Fnan", rd |-> rd, r1 |-> r1, p |-> p.val])
          [] OTHER -> Panic

\* the match on the opcode with the stack range ending at 0x0F
try_from_instruction_0F(i) ==
    LET opcode == Instruction_opcode(i) IN
    CASE opcode = 1 -> Decode_system(i)
      [] opcode \in 2..5 -> Decode_io(i, opcode)
      [] opcode \in 6..9 -> Decode_control(i, opcode)
      [] opcode = 10 -> Decode_branch(i)
      [] opcode \in 11..14 -> Decode_stack(i, opcode)
      [] opcode = 15 -> Some([op |-> "Leave"])
      [] opcode = 16 -> Decode_li(i)
      [] opcode \in 17..27 -> Decode_mem(i, opcode)
      [] opcode = 30 -> Decode_cmpr(i)
      [] opcode = 31 -> Decode_cmpi(i)
      [] opcode \in 32..63 /\ opcode % 2 = 0 -> Decode_reg(i, opcode)
      [] opcode \in 32..63 /\ opcode % 2 # 0 -> Decode_imm(i, opcode)
      [] opcode \in 64..79 -> Decode_float(i, opcode)
      [] OTHER -> None

\* InstructionSet::try_from_instruction
try_from_instruction(i) ==
    LET opcode == Instruction_opcode(i) IN
    CASE opcode = 1 -> Decode_system(i)
      [] opcode \in 2..5 -> Decode_io(i, opcode)
      [] opcode \in 6..9 -> Decode_control(i, opcode)
      [] opcode = 10 -> Decode_branch(i)
      [] opcode \in 11..14 -> Decode_stack(i, opcode)
      [] opcode = 16 -> Decode_li(i)
      [] opcode \in 17..27 -> Decode_mem(i, opcode)
      [] opcode = 30 -> Decode_cmpr(i)
      [] opcode = 31 -> Decode_cmpi(i)
      [] opcode \in 32..63 /\ opcode % 2 = 0 -> Decode_reg(i, opcode)
      [] opcode \in 32..63 /\ opcode % 2 # 0 -> Decode_imm(i, opcode)
      [] opcode \in 64..79 -> Decode_float(i, opcode)
      [] OTHER -> None

---------------------------------------------------------------------------
(* InstructionSet::to_instruction.  main.rs calls it; its body is not in   *)
(* the source tree.  It is modelled from the specification: select the     *)
(* variant's format, pack its fields masked to their declared widths, and  *)
(* prepend the opcode that try_from_instruction assigns to the variant.    *)
(* Fields a variant does not carry are packed as zero.                     *)

\* Register::to_nibble
Register_to_nibble(self) ==
    CASE self = "Rz" -> 0 [] self = "Ra" -> 1 [] self = "Rb" -> 2 [] self = "Rc" -> 3
      [] self = "Rd" -> 4 [] self = "Re" -> 5 [] self = "Rf" -> 6 [] self = "Rg" -> 7
      [] self = "Rh" -> 8 [] self = "Ri" -> 9 [] self = "Rj" -> 10 [] self = "Rk" -> 11
      [] self = "Ip" -> 12 [] self = "Sp" -> 13 [] self = "Fp" -> 14 [] self = "St" -> 15

MemOps == <<"Lw", "Lh", "Lhs", "Lq", "Lqs", "Lb", "Lbs", "Sw", "Sh", "Sq", "Sb">>
RegOps == <<"Addr", "Subr", "Imulr", "Idivr", "Umulr", "Udivr", "Remr", "Modr",
            "Andr", "Orr", "Norr", "Xorr", "Shlr", "Asrr", "Lsrr", "Bitr">>
ImmOps == <<"Addi", "Subi", "Imuli", "Idivi", "Umuli", "Udivi", "Remi", "Modi",
            "Andi", "Ori", "Nori", "Xori", "Shli", "Asri", "Lsri", "Biti">>
\* the floating-point variants that carry two, or one, source register
Float2Ops == <<"Fadd", "Fsub", "Fmul", "Fdiv", "Fma", "Fmin", "Fmax">>
Float1Ops == <<"Fsqrt", "Fsat", "Fnan">>
FloatRsOps == <<"Fto", "Ffrom", "Fneg", "Fabs">>
FloatOps == <<"Fcmp", "Fto", "Ffrom", "Fneg", "Fabs", "Fadd", "Fsub", "Fmul", "Fdiv",
              "Fma", "Fsqrt", "Fmin", "Fmax", "Fsat", "Fcnv", "Fnan">>

Range(seq) == {seq[k] : k \in 1..Len(seq)}
IndexOf(seq, x) == CHOOSE k \in 1..Len(seq) : seq[k] = x

\* the func nibble of a cast: to in the low two bits, from in the high two
FloatCastType_to_nibble(p) == FloatPrecision_code(p.to) + 4 * FloatPrecision_code(p.from)

to_instruction(v) ==
    LET n(r) == Register_to_nibble(r)
        op == v.op
    IN
    CASE op = "Int"  -> F_to_u32([imm |-> v.imm8, func |-> 0, rde |-> 0], 1)
      [] op = "Iret" -> F_to_u32([imm |-> 0, func |-> 1, rde |-> 0], 1)
      [] op = "Ires" -> F_to_u32([imm |-> 0, func |-> 2, rde |-> 0], 1)
      [] op = "Usr"  -> F_to_u32([imm |-> 0, func |-> 3, rde |-> n(v.rd)], 1)
      [] op = "Outr" -> M_to_u32([imm |-> 0, rs1 |-> n(v.rs), rde |-> n(v.rd)], 2)
      [] op = "Outi" -> M_to_u32([imm |-> v.imm16, rs1 |-> n(v.rs), rde |-> 0], 3)
      [] op = "Inr"  -> M_to_u32([imm |-> 0, rs1 |-> n(v.rs), rde |-> n(v.rd)], 4)
      [] op = "Ini"  -> M_to_u32([imm |-> v.imm16, rs1 |-> 0, rde |-> n(v.rd)], 5)
      [] op = "Jal"  -> M_to_u32([imm |-> v.imm16, rs1 |-> n(v.rs), rde |-> 0], 6)
      [] op = "Jalr" -> M_to_u32([imm |-> v.imm16, rs1 |-> n(v.rs), rde |-> n(v.rd)], 7)
      [] op = "Ret"  -> M_to_u32([imm |-> 0, rs1 |-> 0, rde |-> 0], 8)
      [] op = "Retr" -> M_to_u32([imm |-> 0, rs1 |-> n(v.rs), rde |-> 0], 9)
      [] op = "Branch" ->
            B_to_u32([imm |-> U32_and(v.imm20, U32(15, 65535)),
                      func |-> BranchCond_code(v.cc)], 10)
      [] op = "Push"  -> M_to_u32([imm |-> 0, rs1 |-> n(v.rs), rde |-> 0], 11)
      [] op = "Pop"   -> M_to_u32([imm |-> 0, rs1 |-> 0, rde |-> n(v.rd)], 12)
      [] op = "Enter" -> M_to_u32([imm |-> 0, rs1 |-> 0, rde |-> 0], 13)
      [] op = "Leave" -> M_to_u32([imm |-> 0, rs1 |-> 0, rde |-> 0], 14)
      [] op = "Li" ->
            F_to_u32([imm |-> v.imm, func |-> LiType_code(v.func), rde |-> n(v.rd)], 16)
      [] op \in Range(MemOps) ->
            E_to_u32([imm |-> v.off, func |-> v.sh, rs2 |-> n(v.rn), rs1 |-> n(v.rs),
                      rde |-> n(v.rd)], 16 + IndexOf(MemOps, op))
      [] op = "Cmpr" -> M_to_u32([imm |-> 0, rs1 |-> n(v.r2), rde |-> n(v.r1)], 30)
      [] op = "Cmpi" ->
            F_to_u32([imm |-> v.imm, func |-> IF v.s THEN 1 ELSE 0, rde |-> n(v.r1)], 31)
      [] op \in Range(RegOps) ->
            R_to_u32([imm |-> 0, rs2 |-> n(v.r2), rs1 |-> n(v.r1), rde |-> n(v.rd)],
                     30 + 2 * IndexOf(RegOps, op))
      [] op \in Range(ImmOps) ->
            M_to_u32([imm |-> v.imm16, rs1 |-> n(v.r1), rde |-> n(v.rd)],
                     31 + 2 * IndexOf(ImmOps, op))
      [] op = "Fcmp" ->
            E_to_u32([imm |-> 0, func |-> FloatPrecision_code(v.p), rs2 |-> n(v.r2),
                      rs1 |-> n(v.r1), rde |-> 0], 64)
      [] op \in Range(FloatRsOps) ->
            E_to_u32([imm |-> 0, func |-> FloatPrecision_code(v.p), rs2 |-> 0,
                      rs1 |-> n(v.rs), rde |-> n(v.rd)], 63 + IndexOf(FloatOps, op))
      [] op \in Range(Float2Ops) ->
            E_to_u32([imm |-> 0, func |-> FloatPrecision_code(v.p), rs2 |-> n(v.r2),
                      rs1 |-> n(v.r1), rde |-> n(v.rd)], 63 + IndexOf(FloatOps, op))
      [] op \in Range(Float1Ops) ->
            E_to_u32([imm |-> 0, func |-> FloatPrecision_code(v.p), rs2 |-> 0,
                      rs1 |-> n(v.r1), rde |-> n(v.rd)], 63 + IndexOf(FloatOps, op))
      [] op = "Fcnv" ->
            E_to_u32([imm |-> 0, func |-> FloatCastType_to_nibble(v.pp), rs2 |-> 0,
                      rs1 |-> n(v.r1), rde |-> n(v.rd)], 78)

---------------------------------------------------------------------------
(* Inputs of the decoder *)

\* low bytes (bytes 1 and 2) drawn for instruction words
NumLow == 2

LowSample == {ByteTable[k] : k \in 1..NumLow}

\* byte 3 of an instruction word: every value of one nibble with sample
\* values of the other
TopSample ==
    {16 * h + l : h \in 0..15, l \in NibbleSample} \cup
    {16 * h + l : h \in NibbleSample, l \in 0..15}

\* byte 2 of an instruction word: every value of the low nibble with sample
\* values of the high nibble
MidSample == {16 * h + l : h \in NibbleSample, l \in 0..15}

\* the instruction word of four bytes, as an input of the decoder
InstructionInput(b0, b1, b2, b3) ==
    [kind |-> "instruction", w |-> u32_from_le_bytes(<<b0, b1, b2, b3>>)]

RegisterSample == {Register_from_nibble(x) : x \in NibbleSample}
BranchConds == {"Bra", "Beq", "Bez", "Blt", "Ble", "Bltu", "Bleu", "Bne", "Bnz",
                "Bge", "Bgt", "Bgeu", "Bgtu"}
LiTypes == {"Lli", "Llis", "Lui", "Luis", "Lti", "Ltis", "Ltui", "Ltuis"}
FloatPrecisions == {"F16", "F32", "F64"}
FloatCastTypes == [to : FloatPrecisions, from : FloatPrecisions]

\* the variants of enum InstructionSet, their fields over samples of their
\* types; a 20-bit branch offset is a u32 that fits 20 bits
VariantSample ==
    LET Rg == RegisterSample IN
    [op : {"Int"}, imm8 : ByteSample] \cup
    [op : {"Iret", "Ires", "Ret", "Enter", "Leave"}] \cup
    [op : {"Usr", "Pop"}, rd : Rg] \cup
    [op : {"Retr", "Push"}, rs : Rg] \cup
    [op : {"Outr", "Inr"}, rd : Rg, rs : Rg] \cup
    [op : {"Outi"}, imm16 : U16Sample, rs : Rg] \cup
    [op : {"Ini"}, rd : Rg, imm16 : U16Sample] \cup
    [op : {"Jal"}, rs : Rg, imm16 : U16Sample] \cup
    [op : {"Jalr"}, rd : Rg, rs : Rg, imm16 : U16Sample] \cup
    [op : {"Branch"}, cc : BranchConds, imm20 : {x \in U32Sample : x.hi < 16}] \cup
    [op : {"Li"}, rd : Rg, func : LiTypes, imm : U16Sample] \cup
    [op : Range(MemOps), rd : Rg, rs : Rg, rn : Rg, sh : NibbleSample, off : ByteSample] \cup
    [op : {"Cmpr"}, r1 : Rg, r2 : Rg] \cup
    [op : {"Cmpi"}, r1 : Rg, s : BOOLEAN, imm : U16Sample] \cup
    [op : Range(RegOps), rd : Rg, r1 : Rg, r2 : Rg] \cup
    [op : Range(ImmOps), rd : Rg, r1 : Rg, imm16 : U16Sample] \cup
    [op : {"Fcmp"}, r1 : Rg, r2 : Rg, p : FloatPrecisions] \cup
    [op : Range(FloatRsOps), rd : Rg, rs : Rg, p : FloatPrecisions] \cup
    [op : Range(Float2Ops), rd : Rg, r1 : Rg, r2 : Rg, p : FloatPrecisions] \cup
    [op : Range(Float1Ops), rd : Rg, r1 : Rg, p : FloatPrecisions] \cup
    [op : {"Fcnv"}, rd : Rg, r1 : Rg, pp : FloatCastTypes]

VariantInputs == {[kind |-> "variant", v |-> v] : v \in VariantSample}

---------------------------------------------------------------------------
(* The decoder as a state machine: an instruction word is decoded; a       *)
(* variant is encoded to an instruction and that instruction decoded.      *)

\* instruction words have every opcode byte, over the sampled upper bytes:
\* byte 3 is swept with bytes 1 and 2 sampled, and byte 2 with bytes 1 and 3
\* sampled
InitInstructionSet ==
    /\ \/ \E b0 \in 0..255, b1 \in LowSample, b2 \in LowSample, b3 \in TopSample :
            input = InstructionInput(b0, b1, b2, b3)
       \/ \E b0 \in 0..255, b1 \in LowSample, b2 \in MidSample,
             h \in NibbleSample, l \in NibbleSample :
            input = InstructionInput(b0, b1, b2, 16 * h + l)
       \/ input \in VariantInputs
    /\ pc = "start"
    /\ mid = None
    /\ result = None

\* Instruction::try_into_instruction_set
TryFromInstruction ==
    /\ pc = "start"
    /\ input.kind = "instruction"
    /\ result' = try_from_instruction(input.w)
    /\ pc' = "decoded"
    /\ UNCHANGED <<input, mid>>

\* InstructionSet::to_instruction
ToInstruction ==
    /\ pc = "start"
    /\ input.kind = "variant"
    /\ mid' = to_instruction(input.v)
    /\ pc' = "assembled"
    /\ UNCHANGED <<input, result>>

\* try_from_instruction of the assembled instruction
Disassemble ==
    /\ pc = "assembled"
    /\ result' = try_from_instruction(mid)
    /\ pc' = "disassembled"
    /\ UNCHANGED <<input, mid>>

NextInstructionSet == TryFromInstruction \/ ToInstruction \/ Disassemble

SpecInstructionSet == InitInstructionSet /\ [][NextInstructionSet]_vars

---------------------------------------------------------------------------
(* Claims about the decoder *)

\* the register r has the code held in bits a..b of w
RegisterAt(r, w, a, b) == Register_to_u8(r) = Bits(w, a, b)

\* the upper 24 bits of w are zero
UpperZero(w) == Bits(w, 8, 19) = 0 /\ Bits(w, 20, 31) = 0

\* C5: encoding a variant with to_instruction and decoding the instruction
\* with try_from_instruction gives the variant back.
C5_VariantRoundTrip == pc = "disassembled" => result = Some(input.v)

\* the opcode bytes the claim lists as unassigned
C6_Unassigned == {0, 15, 28, 29} \cup 80..255

\* C6: a word whose opcode byte is 0x00, 0x0F, 0x1C, 0x1D or in 0x50..=0xFF
\* decodes to absent whatever its upper 24 bits; for every other opcode
\* some word decodes to a variant (the one whose upper 24 bits are zero).
C6_UnassignedOpcodes ==
    pc = "decoded" =>
        /\ Bits(input.w, 0, 7) \in C6_Unassigned => result = None
        /\ (Bits(input.w, 0, 7) \notin C6_Unassigned /\ UpperZero(input.w)) =>
              (result.tag = "Some" /\ "op" \in DOMAIN result.val)

C6_Witness ==
    /\ pc = "decoded"
    /\ input.w = U32(65535, 65309)
    /\ result = None

\* the condition nibbles the claim lists as assigned
C7_Assigned == {0, 1, 2, 3, 4, 5, 6, 9, 10, 11, 12, 13, 14}

\* C7: a word with opcode 0x0A decodes to Branch with imm20 = bits 8..27 and
\* cc the condition whose code is bits 28..31 when that nibble is assigned,
\* and to absent when the nibble is 0x7, 0x8 or 0xF.
C7_BranchDecode ==
    (pc = "decoded" /\ Bits(input.w, 0, 7) = 10) =>
        IF Bits(input.w, 28, 31) \in C7_Assigned
        THEN /\ result.tag = "Some"
             /\ DOMAIN result.val = {"op", "cc", "imm20"}
             /\ result.val.op = "Branch"
             /\ result.val.cc \in BranchConds
             /\ BranchCond_code(result.val.cc) = Bits(input.w, 28, 31)
             /\ result.val.imm20 = U32(Bits(input.w, 24, 27), Bits(input.w, 8, 23))
        ELSE result = None

C7_Witness ==
    /\ pc = "decoded"
    /\ input.w = U32(40959, 65290)
    /\ result = Some([op |-> "Branch", cc |-> "Bne", imm20 |-> U32(15, 65535)])

\* C8: a word with opcode 0x01 decodes by its func nibble (bits 24..27):
\* 0 to Int{imm8 = bits 8..15} exactly when bits 16..23 are zero and to
\* absent otherwise, 1 to Iret, 2 to Ires, 3 to Usr{rd = bits 28..31},
\* 4..=15 to absent.
C8_SystemDecode ==
    (pc = "decoded" /\ Bits(input.w, 0, 7) = 1) =>
        LET func == Bits(input.w, 24, 27) IN
        CASE func = 0 ->
                IF Bits(input.w, 16, 23) = 0
                THEN result = Some([op |-> "Int", imm8 |-> Bits(input.w, 8, 15)])
                ELSE result = None
          [] func = 1 -> result = Some([op |-> "Iret"])
          [] func = 2 -> result = Some([op |-> "Ires"])
          [] func = 3 ->
                /\ result.tag = "Some"
                /\ DOMAIN result.val = {"op", "rd"}
                /\ result.val.op = "Usr"
                /\ RegisterAt(result.val.rd, input.w, 28, 31)
          [] OTHER -> result = None

C8_Witness ==
    /\ pc = "decoded"
    /\ input.w = U32(40959, 65281)
    /\ result = None

\* the 16 operations in opcode order
C9_Operations == <<"Add", "Sub", "Imul", "Idiv", "Umul", "Udiv", "Rem", "Mod",
                   "And", "Or", "Nor", "Xor", "Shl", "Asr", "Lsr", "Bit">>

\* C9: a word with opcode in 0x20..=0x3F always decodes; opcode 0x20 + 2k
\* gives the register form of operation k with rd, r1, r2 = bits 28..31,
\* 24..27, 20..23, and opcode 0x21 + 2k the immediate form of the same
\* operation with rd, r1 = bits 28..31, 24..27 and imm16 = bits 8..23.
C9_ParitySplit ==
    (pc = "decoded" /\ Bits(input.w, 0, 7) \in 32..63) =>
        LET opcode == Bits(input.w, 0, 7)
            name   == C9_Operations[((opcode - 32) \div 2) + 1]
        IN  /\ result.tag = "Some"
            /\ RegisterAt(result.val.rd, input.w, 28, 31)
            /\ RegisterAt(result.val.r1, input.w, 24, 27)
            /\ IF opcode % 2 = 0
               THEN /\ DOMAIN result.val = {"op", "rd", "r1", "r2"}
                    /\ result.val.op = name \o "r"
                    /\ RegisterAt(result.val.r2, input.w, 20, 23)
               ELSE /\ DOMAIN result.val = {"op", "rd", "r1", "imm16"}
                    /\ result.val.op = name \o "i"
                    /\ result.val.imm16 = Bits(input.w, 8, 23)

C9_Witness ==
    /\ pc = "decoded"
    /\ input.w = U32(42495, 59)
    /\ result = Some([op |-> "Asri", rd |-> "Rj", r1 |-> "Re", imm16 |-> 65280])

\* C10: a word with opcode 0x10 decodes to Li{rd = bits 28..31, func,
\* imm = bits 8..23} with func the LiType whose code is the func nibble
\* (bits 24..27) when that nibble is in 0..=7, and to absent otherwise.
C10_LiDecode ==
    (pc = "decoded" /\ Bits(input.w, 0, 7) = 16) =>
        IF Bits(input.w, 24, 27) \in 0..7
        THEN /\ result.tag = "Some"
             /\ DOMAIN result.val = {"op", "rd", "func", "imm"}
             /\ result.val.op = "Li"
             /\ RegisterAt(result.val.rd, input.w, 28, 31)
             /\ result.val.func \in LiTypes
             /\ LiType_code(result.val.func) = Bits(input.w, 24, 27)
             /\ result.val.imm = Bits(input.w, 8, 23)
        ELSE result = None

C10_Witness ==
    /\ pc = "decoded"
    /\ input.w = U32(42752, 65296)
    /\ result = Some([op |-> "Li", rd |-> "Rj", func |-> "Ltuis", imm |-> 255])

\* the opcodes of the floating point family that carry a precision tag
C11_PrecisionOpcodes == (64..77) \cup {79}

\* C11: a word with opcode in 0x40..=0x4D or 0x4F decodes exactly when its
\* func nibble (bits 16..19) is 0, 1 or 2, to a variant of precision F16, F32
\* or F64 respectively whose register operands are read from bits 28..31
\* (rd), bits 24..27 (r1, or the single source rs) and bits 20..23 (r2); with
\* a func nibble in 3..=15 it decodes to absent.
C11_FloatPrecisionDecode ==
    (pc = "decoded" /\ Bits(input.w, 0, 7) \in C11_PrecisionOpcodes) =>
        IF Bits(input.w, 16, 19) \in 0..2
        THEN /\ result.tag = "Some"
             /\ result.val.op = FloatOps[Bits(input.w, 0, 7) - 63]
             /\ result.val.p \in FloatPrecisions
             /\ FloatPrecision_code(result.val.p) = Bits(input.w, 16, 19)
             /\ DOMAIN result.val \subseteq {"op", "p", "rd", "r1", "rs", "r2"}
             /\ "rd" \in DOMAIN result.val => RegisterAt(result.val.rd, input.w, 28, 31)
             /\ "r1" \in DOMAIN result.val => RegisterAt(result.val.r1, input.w, 24, 27)
             /\ "rs" \in DOMAIN result.val => RegisterAt(result.val.rs, input.w, 24, 27)
             /\ "r2" \in DOMAIN result.val => RegisterAt(result.val.r2, input.w, 20, 23)
        ELSE result = None

\* 0xAFA2FF45 decodes to Fadd.64 with rd = 0xA, r1 = 0xF, r2 = 0xA
C11_Witness ==
    /\ pc = "decoded"
    /\ input.w = U32(44962, 65349)
    /\ result = Some([op |-> "Fadd", rd |-> "Rj", r1 |-> "St", r2 |-> "Rj", p |-> "F64"])

\* C21: decoding never aborts: for every instruction word, and for every
\* instruction assembled from a variant, try_from_instruction returns a
\* variant or absent; no unreachable!() arm of the matches on the opcode is
\* taken.
C21_DecodeTotal ==
    pc \in {"decoded", "disassembled"} =>
        /\ result # Panic
        /\ result.tag \in {"Some", "None"}
        /\ result.tag = "Some" => "op" \in DOMAIN result.val

\* 0xA5FF003F, the last opcode of the 0x20..=0x3F range, decodes to Biti
C21_Witness ==
    /\ pc = "decoded"
    /\ input.w = U32(42495, 63)
    /\ result = Some([op |-> "Biti", rd |-> "Rj", r1 |-> "Re", imm16 |-> 65280])

\* the word w with its func nibble of format E (bits 16..19) replaced by n
C23_WithFunc(w, n) == [hi |-> (w.hi \div 16) * 16 + n, lo |-> w.lo]

\* C23: a word with opcode 0x4E decodes to Fcnv{rd = bits 28..31, r1 = bits
\* 24..27} with a (from, to) precision pair, or to absent; and over the 16
\* values of its func nibble each of the 9 ordered pairs over {F16, F32, F64}
\* is the decode result of some value.
C23_CastPairsCovered ==
    (pc = "decoded" /\ Bits(input.w, 0, 7) = 78) =>
        /\ result # None =>
              /\ result.tag = "Some"
              /\ DOMAIN result.val = {"op", "rd", "r1", "pp"}
              /\ result.val.op = "Fcnv"
              /\ result.val.pp \in FloatCastTypes
              /\ RegisterAt(result.val.rd, input.w, 28, 31)
              /\ RegisterAt(result.val.r1, input.w, 24, 27)
        /\ \A pair \in FloatCastTypes :
              \E n \in 0..15 :
                  LET r == try_from_instruction(C23_WithFunc(input.w, n)) IN
                  r # None /\ r.val.pp = pair

\* C25: a word with opcode 0x1E always decodes, to Cmpr{r1 = bits 28..31,
\* r2 = bits 24..27}; a word with opcode 0x1F decodes to Cmpi{r1 = bits
\* 28..31, imm = bits 8..23} with s = false when the func nibble (bits
\* 24..27) is 0 and s = true when it is 1, and to absent when it is in 2..=15.
C25_CompareDecode ==
    /\ (pc = "decoded" /\ Bits(input.w, 0, 7) = 30) =>
          /\ result.tag = "Some"
          /\ DOMAIN result.val = {"op", "r1", "r2"}
          /\ result.val.op = "Cmpr"
          /\ RegisterAt(result.val.r1, input.w, 28, 31)
          /\ RegisterAt(result.val.r2, input.w, 24, 27)
    /\ (pc = "decoded" /\ Bits(input.w, 0, 7) = 31) =>
          IF Bits(input.w, 24, 27) \in {0, 1}
          THEN /\ result.tag = "Some"
               /\ DOMAIN result.val = {"op", "r1", "s", "imm"}
               /\ result.val.op = "Cmpi"
               /\ RegisterAt(result.val.r1, input.w, 28, 31)
               /\ result.val.s = (Bits(input.w, 24, 27) = 1)
               /\ result.val.imm = Bits(input.w, 8, 23)
          ELSE result = None

\* 0xA100FF1F decodes to Cmpi with the operand order flag set
C25_Witness ==
    /\ pc = "decoded"
    /\ input.w = U32(41216, 65311)
    /\ result = Some([op |-> "Cmpi", r1 |-> "Rj", s |-> TRUE, imm |-> 255])

\* C26: a word with opcode 0x11 + k, k in 0..=10, always decodes, to the k-th
\* of Lw, Lh, Lhs, Lq, Lqs, Lb, Lbs, Sw, Sh, Sq, Sb with rd = bits 28..31,
\* rs = bits 24..27, rn = bits 20..23, sh = bits 16..19 and off = bits 8..15.
C26_MemDecode ==
    (pc = "decoded" /\ Bits(input.w, 0, 7) \in 17..27) =>
        /\ result.tag = "Some"
        /\ DOMAIN result.val = {"op", "rd", "rs", "rn", "sh", "off"}
        /\ result.val.op = MemOps[Bits(input.w, 0, 7) - 16]
        /\ RegisterAt(result.val.rd, input.w, 28, 31)
        /\ RegisterAt(result.val.rs, input.w, 24, 27)
        /\ RegisterAt(result.val.rn, input.w, 20, 23)
        /\ result.val.sh = Bits(input.w, 16, 19)
        /\ result.val.off = Bits(input.w, 8, 15)

\* 0x0FA5FF1B decodes to Sb with rd = 0x0, rs = 0xF, rn = 0xA, sh = 5
C26_Witness ==
    /\ pc = "decoded"
    /\ input.w = U32(4005, 65307)
    /\ result = Some([op |-> "Sb", rd |-> "Rz", rs |-> "St", rn |-> "Rj",
                      sh |-> 5, off |-> 255])

\* the u32 whose bits a..b are ones, 8 <= a <= b <= 31
C30_Ones(a, b) ==
    [hi |-> IF b >= 16 THEN 2^(b - 15) - 2^((IF a > 16 THEN a ELSE 16) - 16) ELSE 0,
     lo |-> IF a < 16 THEN 2^((IF b < 15 THEN b ELSE 15) + 1) - 2^a ELSE 0]

\* the bits of the upper 24 that decide a decoded variant: its sub-code
\* nibble and the fields it carries (for Int, the whole 16-bit immediate
\* that must fit 8 bits)
C30_Carried(v) ==
    LET rde   == C30_Ones(28, 31)
        rs1   == C30_Ones(24, 27)
        rs2   == C30_Ones(20, 23)
        funcF == C30_Ones(24, 27)
        funcE == C30_Ones(16, 19)
        imm16 == C30_Ones(8, 23)
        none  == U32(0, 0)
        op    == v.op
    IN  CASE op \in {"Ret", "Enter", "Leave"} -> none
          [] op \in {"Iret", "Ires"} -> funcF
          [] op = "Int" -> U32_or(funcF, imm16)
          [] op = "Usr" -> U32_or(funcF, rde)
          [] op \in {"Outr", "Inr", "Cmpr"} -> U32_or(rde, rs1)
          [] op \in {"Outi", "Jal"} -> U32_or(rs1, imm16)
          [] op = "Ini" -> U32_or(rde, imm16)
          [] op \in {"Retr", "Push"} -> rs1
          [] op = "Pop" -> rde
          [] op \in Range(RegOps) -> U32_or(rde, U32_or(rs1, rs2))
          [] op = "Fcmp" -> U32_or(rs1, U32_or(rs2, funcE))
          [] op \in Range(FloatRsOps) \cup Range(Float1Ops) \cup {"Fcnv"} ->
                U32_or(rde, U32_or(rs1, funcE))
          [] op \in Range(Float2Ops) -> C30_Ones(16, 31)
          [] OTHER -> C30_Ones(8, 31)

\* w with every bit outside the opcode byte and the mask c cleared, and set
C30_Cleared(w, c) == U32_and(w, [hi |-> c.hi, lo |-> c.lo + 255])
C30_Filled(w, c) == U32_or(w, [hi |-> 65535 - c.hi, lo |-> 65280 - c.lo])

\* C30: decode ignores the bits a variant does not carry: a word that
\* decodes to a variant decodes to the same variant with every bit outside
\* its opcode, its sub-code nibble and the fields the variant carries cleared,
\* and with all of them set; opcodes 0x08, 0x0D and 0x0E give Ret, Enter and
\* Leave whatever the upper 24 bits, opcode 0x01 with func 1 or 2 gives Iret
\* or Ires whatever imm and rde, and an even opcode in 0x20..=0x3E gives the
\* same result with its 12-bit imm (bits 8..19) cleared.
C30_IgnoredBits ==
    pc = "decoded" =>
        LET opcode == Bits(input.w, 0, 7) IN
        /\ opcode = 8 => result = Some([op |-> "Ret"])
        /\ opcode = 13 => result = Some([op |-> "Enter"])
        /\ opcode = 14 => result = Some([op |-> "Leave"])
        /\ (opcode = 1 /\ Bits(input.w, 24, 27) = 1) => result = Some([op |-> "Iret"])
        /\ (opcode = 1 /\ Bits(input.w, 24, 27) = 2) => result = Some([op |-> "Ires"])
        /\ (opcode \in 32..62 /\ opcode % 2 = 0) =>
              /\ result.tag = "Some"
              /\ result = try_from_instruction(
                              U32_and(input.w, U32(65520, 255)))
        /\ result.tag = "Some" =>
              LET c == C30_Carried(result.val) IN
              /\ try_from_instruction(C30_Cleared(input.w, c)) = result
              /\ try_from_instruction(C30_Filled(input.w, c)) = result

\* 0xA5FFFF08 decodes to Ret although every field of format M is non-zero
C30_Witness ==
    /\ pc = "decoded"
    /\ input.w = U32(42495, 65288)
    /\ result = Some([op |-> "Ret"])


---------------------------------------------------------------------------
(* The Nibble conversions as a state machine: a byte is split into its two *)
(* nibbles and composed again; two nibbles are composed and split again.   *)

InitNibble ==
    /\ \/ \E v \in 0..255 : input = [kind |-> "byte", v |-> v]
       \/ \E a \in 0..15, b \in 0..15 : input = [kind |-> "nibbles", lo |-> a, hi |-> b]
    /\ pc = "start"
    /\ mid = None
    /\ result = None

\* Nibble::from_u8, Nibble::from_u8_upper and Nibble::try_from_u8 of a byte
NibbleSplit ==
    /\ pc = "start"
    /\ input.kind = "byte"
    /\ mid' = [lo  |-> Nibble_from_u8(input.v),
               hi  |-> Nibble_from_u8_upper(input.v),
               try |-> Nibble_try_from_u8(input.v)]
    /\ pc' = "split"
    /\ UNCHANGED <<input, result>>

\* Nibble::compose of the two halves
NibbleCompose ==
    /\ pc = "split"
    /\ result' = Nibble_compose(mid.lo, mid.hi)
    /\ pc' = "composed"
    /\ UNCHANGED <<input, mid>>

\* Nibble::compose of two nibbles
NibblePack ==
    /\ pc = "start"
    /\ input.kind = "nibbles"
    /\ mid' = Nibble_compose(input.lo, input.hi)
    /\ pc' = "packed"
    /\ UNCHANGED <<input, result>>

\* Nibble::from_u8 and Nibble::from_u8_upper of the composed byte
NibbleUnpack ==
    /\ pc = "packed"
    /\ result' = [lo |-> Nibble_from_u8(mid), hi |-> Nibble_from_u8_upper(mid)]
    /\ pc' = "unpacked"
    /\ UNCHANGED <<input, mid>>

NextNibble == NibbleSplit \/ NibbleCompose \/ NibblePack \/ NibbleUnpack

SpecNibble == InitNibble /\ [][NextNibble]_vars

\* C20: from_u8(v) is the nibble v mod 16 and from_u8_upper(v) the nibble
\* floor(v / 16); compose(lo, hi) = lo + 16 * hi; composing the two halves of
\* a byte gives the byte back and splitting a composed byte gives the two
\* nibbles back; try_from_u8(v) is present, with value v, exactly when v < 16.
C20_NibbleLossless ==
    /\ pc \in {"split", "composed"} =>
          /\ mid.lo = input.v % 16
          /\ mid.hi = input.v \div 16
          /\ mid.try = (IF input.v < 16 THEN Some(input.v) ELSE None)
    /\ pc = "composed" => result = input.v
    /\ pc \in {"packed", "unpacked"} => mid = input.lo + 16 * input.hi
    /\ pc = "unpacked" => result = [lo |-> input.lo, hi |-> input.hi]

\* the byte 0xA5 splits into 0x5 and 0xA, is no nibble itself, and is composed
\* again
C20_Witness ==
    /\ pc = "composed"
    /\ input = [kind |-> "byte", v |-> 165]
    /\ mid = [lo |-> 5, hi |-> 10, try |-> None]
    /\ result = 165


---------------------------------------------------------------------------
(* 64-bit machine integers.  A u64 is the tuple of its four 16-bit         *)
(* quarters, least significant first; an i64 is the u64 of the same bit    *)
(* pattern (two's complement).                                             *)

\* a u64 from its quarters, written most significant first as in a hex literal
U64(w3, w2, w1, w0) == <<w0, w1, w2, w3>>

\* `x as u64` / u64::from(x) for a u8 or u16 x
U64_from(x) == U64(0, 0, 0, x)

\* quarter j of v, zero outside the value
U64_quarter(v, j) == IF j \in 1..4 THEN v[j] ELSE 0

\* u64 & u64
U64_and(a, b) ==
    <<BitAnd(a[1], b[1]), BitAnd(a[2], b[2]), BitAnd(a[3], b[3]), BitAnd(a[4], b[4])>>

\* u64 | u64
U64_or(a, b) ==
    <<BitOr(a[1], b[1]), BitOr(a[2], b[2]), BitOr(a[3], b[3]), BitOr(a[4], b[4])>>

\* !u64
U64_not(a) == <<65535 - a[1], 65535 - a[2], 65535 - a[3], 65535 - a[4]>>

\* u64 << n, 0 <= n < 64: bits shifted past bit 63 are lost
U64_shl(v, n) ==
    LET k == n \div 16
        r == n % 16
        q(j) == ((U64_quarter(v, j - k) * 2^r) % 65536)
                    + (U64_quarter(v, j - k - 1) \div 2^(16 - r))
    IN  <<q(1), q(2), q(3), q(4)>>

\* u64 >> n, 0 <= n < 64
U64_shr(v, n) ==
    LET k == n \div 16
        r == n % 16
        q(j) == (U64_quarter(v, j + k) \div 2^r)
                    + (U64_quarter(v, j + k + 1) % 2^r) * 2^(16 - r)
    IN  <<q(1), q(2), q(3), q(4)>>

\* the sign of the i64 with the bit pattern v
I64_negative(v) == v[4] >= 32768

\* i64 >> n, 0 <= n < 64: the vacated bits are copies of the sign bit
I64_shr(v, n) ==
    IF I64_negative(v) THEN U64_not(U64_shr(U64_not(v), n)) ELSE U64_shr(v, n)


---------------------------------------------------------------------------
(* helper.rs: sign_extend and the bit-slice accessors.                     *)
(*                                                                         *)
(* The accessors are generic in the integer type, so here a value of u8,   *)
(* u16, u32 or u64 is the u64 tuple of its zero extension, kept with the   *)
(* name of its type; a Nibble is its discriminant 0..15 and a bool is a    *)
(* BOOLEAN.  An operation that can abort gives Returns(v) or Panic.  The   *)
(* arithmetic and shift overflow checks of Rust depend on the build: the   *)
(* parameter checks is TRUE for a build with overflow checks (the operation*)
(* aborts) and FALSE for one without (the value or shift amount wraps).    *)

\* the integer types the accessors are implemented for
IntTypes == {"u8", "u16", "u32", "u64"}

\* the number of bits of an integer type
Width(t) == [u8 |-> 8, u16 |-> 16, u32 |-> 32, u64 |-> 64][t]

\* the value with its low w bits set, 1 <= w <= 64
U64_ones(w) == U64_shr(U64(65535, 65535, 65535, 65535), 64 - w)

\* `v as T` for an integer type T of w bits: the low w bits are kept
Truncate(w, v) == U64_and(v, U64_ones(w))

\* sign_extend with the right shift done on the u64, not on the i64
sign_extend_logical(BIT_SIZE, val, checks) ==
    LET shift == (64 - BIT_SIZE) % 256 IN
    IF checks /\ (BIT_SIZE > 64 \/ shift >= 64)
    THEN Panic
    ELSE Returns(U64_shr(U64_shl(val, shift % 64), shift % 64))

\* sign_extend::<BIT_SIZE>(val): 64 - BIT_SIZE is computed in u8, and both
\* shifts are by that amount
sign_extend(BIT_SIZE, val, checks) ==
    LET shift == (64 - BIT_SIZE) % 256 IN
    IF checks /\ (BIT_SIZE > 64 \/ shift >= 64)
    THEN Panic
    ELSE Returns(I64_shr(U64_shl(val, shift % 64), shift % 64))

\* $to::from(INDEX) * $size as the amount of a shift of a $to of W bits: the
\* product is computed in $to; Panic when the product or the shift overflows
\* in a build with overflow checks
SliceShift(W, INDEX, size, checks) ==
    LET p       == INDEX * size
        wrapped == IF W < 16 THEN p % 2^W ELSE p
    IN  IF checks /\ (wrapped # p \/ wrapped >= W)
        THEN Panic
        ELSE Returns(wrapped % W)

\* <$type as BitAccessTo<$to>>::access_to::<INDEX>(to), of the macro
\* impl_bit_access_to: (to >> ($to::from(INDEX) * $size)) as Self
access_to(to_t, type, INDEX, to, checks) ==
    LET n == SliceShift(Width(to_t), INDEX, Width(type), checks) IN
    IF n = Panic THEN Panic
    ELSE Returns(Truncate(Width(type), U64_shr(to, n.val)))

\* write_to with the slice cleared but the value not written
write_to_clear_only(to_t, type, INDEX, to, v, checks) ==
    LET W == Width(to_t)
        n == SliceShift(W, INDEX, Width(type), checks)
    IN  IF n = Panic THEN Panic
        ELSE Returns(U64_and(to, Truncate(W, U64_not(Truncate(W,
                         U64_shl(U64_ones(Width(type)), n.val))))))

\* <$type as BitAccessTo<$to>>::write_to::<INDEX>(&mut to, v):
\*   *to &= !($to::from(!$zero) << ($to::from(INDEX) * $size));
\*   *to |= $to::from(v) << ($to::from(INDEX) * $size);
\* gives the new value of to
write_to(to_t, type, INDEX, to, v, checks) ==
    LET W       == Width(to_t)
        n       == SliceShift(W, INDEX, Width(type), checks)
    IN  IF n = Panic THEN Panic
        ELSE LET cleared == U64_and(to, Truncate(W, U64_not(Truncate(W,
                                U64_shl(U64_ones(Width(type)), n.val)))))
             IN  Returns(U64_or(cleared, Truncate(W, U64_shl(v, n.val))))


\* <bool as BitAccessTo<$type>>::access_to::<INDEX>(to), of the macro
\* impl_bit_access_from_bool: (to >> (INDEX as $type)) != 0
bool_access_to_int(to_t, INDEX, to, checks) ==
    IF INDEX >= Width(to_t)
    THEN IF checks THEN Panic
         ELSE Returns(U64_shr(to, INDEX % Width(to_t)) # U64(0, 0, 0, 0))
    ELSE Returns(U64_shr(to, INDEX) # U64(0, 0, 0, 0))

\* <bool as BitAccessTo<$type>>::write_to::<INDEX>(&mut to, v):
\*   if v { *to |= 1 << (INDEX as $type) } else { *to &= !(1 << (INDEX as $type)) }
\* gives the new value of to
bool_write_to_int(to_t, INDEX, to, v, checks) ==
    LET W   == Width(to_t)
        one == U64_shl(U64_from(1), INDEX % W)
    IN  IF checks /\ INDEX >= W THEN Panic
        ELSE IF v THEN Returns(U64_or(to, one))
        ELSE Returns(U64_and(to, Truncate(W, U64_not(one))))

\* <bool as BitAccessTo<Nibble>>::access_to::<INDEX>(to):
\* (to as u8 >> INDEX) != 0, a shift of a u8
bool_access_to_nibble(INDEX, to, checks) ==
    IF INDEX >= 8
    THEN IF checks THEN Panic
         ELSE Returns((Nibble_as_u8(to) \div 2^(INDEX % 8)) # 0)
    ELSE Returns((Nibble_as_u8(to) \div 2^INDEX) # 0)

\* the write of a bool into a Nibble without the Nibble::from_u8 of the byte
bool_write_to_nibble_unmasked(INDEX, to, v) ==
    IF INDEX > 4 THEN Returns(to)
    ELSE IF v THEN Returns(BitOr(Nibble_as_u8(to), 2^INDEX))
    ELSE Returns(BitAnd(Nibble_as_u8(to), 255 - 2^INDEX))

\* <bool as BitAccessTo<Nibble>>::write_to::<INDEX>(&mut to, v): returns at
\* once if INDEX > 4, else sets or clears the bit of the u8 and takes
\* Nibble::from_u8 of it
bool_write_to_nibble(INDEX, to, v) ==
    IF INDEX > 4 THEN Returns(to)
    ELSE IF v THEN Returns(Nibble_from_u8(BitOr(Nibble_as_u8(to), 2^INDEX)))
    ELSE Returns(Nibble_from_u8(BitAnd(Nibble_as_u8(to), 255 - 2^INDEX)))

\* bool slices of a container of type to_t, an integer type or Nibble
bool_access_to(to_t, INDEX, to, checks) ==
    IF to_t = "Nibble" THEN bool_access_to_nibble(INDEX, to, checks)
    ELSE bool_access_to_int(to_t, INDEX, to, checks)

bool_write_to(to_t, INDEX, to, v, checks) ==
    IF to_t = "Nibble" THEN bool_write_to_nibble(INDEX, to, v)
    ELSE bool_write_to_int(to_t, INDEX, to, v, checks)


---------------------------------------------------------------------------
(* Inputs of sign_extend and of the bit-slice accessors *)

\* 64-bit patterns drawn for containers and slice values
NumPatterns == 3
\* values drawn for sign_extend
NumExtend == 4

\* 0x0123456789ABCDEF, 0xFFFFFFFFFFFFFFFF, 0, 0xFEDCBA9876543210,
\* 0xA5A55A5AC33C0FF0
PatternTable ==
    <<U64(291, 17767, 35243, 52719), U64(65535, 65535, 65535, 65535), U64(0, 0, 0, 0),
      U64(65244, 47768, 30292, 12816), U64(42405, 23130, 49980, 4080)>>

\* 0xFF, 0x7F, 0x8000, 0x0123456789ABCDEF, 0xFFFFFFFFFFFF7FFF, 0
ExtendTable ==
    <<U64(0, 0, 0, 255), U64(0, 0, 0, 127), U64(0, 0, 0, 32768),
      U64(291, 17767, 35243, 52719), U64(65535, 65535, 65535, 32767), U64(0, 0, 0, 0)>>

PatternSample == {PatternTable[k] : k \in 1..NumPatterns}
ExtendSample == {ExtendTable[k] : k \in 1..NumExtend}

\* the containers that have bool slices, and the values drawn for each
BoolContainers == IntTypes \cup {"Nibble"}
ContainerSample(to_t) ==
    IF to_t = "Nibble" THEN 0..15
    ELSE {Truncate(Width(to_t), c) : c \in PatternSample}

\* the first INDEX at which every bool access of the container overflows
BoolIndexEnd(to_t) == IF to_t = "Nibble" THEN 8 ELSE Width(to_t)

---------------------------------------------------------------------------
(* sign_extend and the accessors as a state machine: a value is sign       *)
(* extended; a slice is written into a container and read back.  INDEX     *)
(* runs over the indices the container has and the first one past them.    *)

InitBitAccess ==
    /\ \/ \E n \in 0..65, x \in ExtendSample, ch \in BOOLEAN :
            input = [kind |-> "sign_extend", BIT_SIZE |-> n, val |-> x, checks |-> ch]
       \/ \E to_t \in IntTypes, type \in IntTypes, ch \in BOOLEAN,
             c \in PatternSample, v \in PatternSample :
            /\ Width(type) <= Width(to_t)
            /\ \E n \in 0..(Width(to_t) \div Width(type)) :
                  input = [kind |-> "slice", to_t |-> to_t, type |-> type, INDEX |-> n,
                           to |-> Truncate(Width(to_t), c),
                           v |-> Truncate(Width(type), v), checks |-> ch]
       \/ \E to_t \in BoolContainers, v \in BOOLEAN, ch \in BOOLEAN :
            \E c \in ContainerSample(to_t), n \in 0..BoolIndexEnd(to_t) :
                  input = [kind |-> "bool", to_t |-> to_t, INDEX |-> n, to |-> c,
                           v |-> v, checks |-> ch]
    /\ pc = "start"
    /\ mid = None
    /\ result = None

\* sign_extend::<BIT_SIZE>(val)
SignExtend ==
    /\ pc = "start"
    /\ input.kind = "sign_extend"
    /\ result' = sign_extend(input.BIT_SIZE, input.val, input.checks)
    /\ pc' = "extended"
    /\ UNCHANGED <<input, mid>>

\* to.write::<INDEX>(v) for an integer slice
WriteSlice ==
    /\ pc = "start"
    /\ input.kind = "slice"
    /\ mid' = write_to(input.to_t, input.type, input.INDEX, input.to, input.v, input.checks)
    /\ pc' = "written"
    /\ UNCHANGED <<input, result>>

\* to.access::<INDEX>() of the written container, for an integer slice
AccessSlice ==
    /\ pc = "written"
    /\ input.kind = "slice"
    /\ mid # Panic
    /\ result' = access_to(input.to_t, input.type, input.INDEX, mid.val, input.checks)
    /\ pc' = "accessed"
    /\ UNCHANGED <<input, mid>>

\* to.write::<INDEX>(v) for a bool slice
WriteBool ==
    /\ pc = "start"
    /\ input.kind = "bool"
    /\ mid' = bool_write_to(input.to_t, input.INDEX, input.to, input.v, input.checks)
    /\ pc' = "written"
    /\ UNCHANGED <<input, result>>

\* to.access::<INDEX>() of the written container, for a bool slice
AccessBool ==
    /\ pc = "written"
    /\ input.kind = "bool"
    /\ mid # Panic
    /\ result' = bool_access_to(input.to_t, input.INDEX, mid.val, input.checks)
    /\ pc' = "accessed"
    /\ UNCHANGED <<input, mid>>

NextBitAccess == SignExtend \/ WriteSlice \/ AccessSlice \/ WriteBool \/ AccessBool

SpecBitAccess == InitBitAccess /\ [][NextBitAccess]_vars


---------------------------------------------------------------------------
(* Claims about sign_extend and the bit-slice accessors *)

\* bit i of the u64 v, read from its quarter
U64_bit(v, i) == (v[(i \div 16) + 1] \div 2^(i % 16)) % 2

\* bit i of a container value: a Nibble is a number, an integer a u64
ContainerBit(to_t, c, i) ==
    IF to_t = "Nibble" THEN (c \div 2^i) % 2 ELSE U64_bit(c, i)

\* the number of bits of a container with bool slices
ContainerWidth(to_t) == IF to_t = "Nibble" THEN 4 ELSE Width(to_t)

\* C12: for an integer slice type S no wider than the container type C and
\* an INDEX with (INDEX + 1) * width(S) <= width(C): after write<INDEX>(c, v)
\* the bits of the slice are the bits of v and every other bit of c is
\* unchanged, and access<INDEX>(c) then returns v.
C12_SliceIsolation ==
    (input.kind = "slice" /\ pc \in {"written", "accessed"}
        /\ (input.INDEX + 1) * Width(input.type) <= Width(input.to_t)) =>
        LET lo == input.INDEX * Width(input.type)
            hi == lo + Width(input.type)
        IN  /\ mid.tag = "Returns"
            /\ \A i \in 0..63 :
                  U64_bit(mid.val, i) =
                      IF lo <= i /\ i < hi THEN U64_bit(input.v, i - lo)
                      ELSE U64_bit(input.to, i)
            /\ pc = "accessed" => result = Returns(input.v)

\* the u16 0xFFFF is written at index 2 of the u64 0x0123456789ABCDEF, which
\* becomes 0x0123FFFF89ABCDEF, and is read back
C12_Witness ==
    /\ pc = "accessed"
    /\ input.kind = "slice" /\ input.to_t = "u64" /\ input.type = "u16"
    /\ input.INDEX = 2
    /\ input.to = U64(291, 17767, 35243, 52719)
    /\ input.v = U64(0, 0, 0, 65535)
    /\ mid = Returns(U64(291, 65535, 35243, 52719))
    /\ result = Returns(U64(0, 0, 0, 65535))

\* C13: for a container of u8, u16, u32, u64 or Nibble and a bit position
\* INDEX below its width: write<INDEX>(c, v) of a boolean v changes no bit
\* other than bit INDEX, and access<INDEX>(c) then returns v, whatever the
\* other bits of c are.
C13_BoolReadAfterWrite ==
    (input.kind = "bool" /\ pc \in {"written", "accessed"}
        /\ input.INDEX < ContainerWidth(input.to_t)) =>
        /\ mid.tag = "Returns"
        /\ \A i \in 0..(ContainerWidth(input.to_t) - 1) :
              ContainerBit(input.to_t, mid.val, i) =
                  IF i = input.INDEX THEN (IF input.v THEN 1 ELSE 0)
                  ELSE ContainerBit(input.to_t, input.to, i)
        /\ pc = "accessed" => result = Returns(input.v)

\* C24: writing a bool into a Nibble container at an INDEX >= 4 leaves the
\* nibble unchanged; at an INDEX in 0..=3 the result is a nibble (0..15) that
\* differs from the container at most in bit INDEX.
C24_NibbleWritePastEnd ==
    (input.kind = "bool" /\ input.to_t = "Nibble" /\ pc \in {"written", "accessed"}) =>
        /\ mid.tag = "Returns"
        /\ IF input.INDEX >= 4
           THEN mid.val = input.to
           ELSE /\ mid.val \in 0..15
                /\ \A i \in (0..3) \ {input.INDEX} :
                      (mid.val \div 2^i) % 2 = (input.to \div 2^i) % 2

\* write::<4>(true) into the nibble 0xA leaves 0xA
C24_Witness ==
    /\ pc = "written"
    /\ input.kind = "bool"
    /\ input.to_t = "Nibble"
    /\ input.INDEX = 4
    /\ input.to = 10
    /\ input.v = TRUE
    /\ mid = Returns(10)

\* C14: for BIT_SIZE in 1..=64 the low BIT_SIZE bits of
\* sign_extend<BIT_SIZE>(val) are those of val and every bit at a position
\* >= BIT_SIZE is bit BIT_SIZE - 1 of val; sign_extend<8>(0xFF) is
\* 0xFFFFFFFFFFFFFFFF, sign_extend<8>(0x7F) is 0x7F and sign_extend<16>(0x8000)
\* is 0xFFFFFFFFFFFF8000.
C14_SignExtension ==
    (input.kind = "sign_extend" /\ pc = "extended" /\ input.BIT_SIZE \in 1..64) =>
        /\ result.tag = "Returns"
        /\ \A i \in 0..63 :
              U64_bit(result.val, i) =
                  IF i < input.BIT_SIZE THEN U64_bit(input.val, i)
                  ELSE U64_bit(input.val, input.BIT_SIZE - 1)
        /\ (input.BIT_SIZE = 8 /\ input.val = U64(0, 0, 0, 255)) =>
              result.val = U64(65535, 65535, 65535, 65535)
        /\ (input.BIT_SIZE = 8 /\ input.val = U64(0, 0, 0, 127)) =>
              result.val = U64(0, 0, 0, 127)
        /\ (input.BIT_SIZE = 16 /\ input.val = U64(0, 0, 0, 32768)) =>
              result.val = U64(65535, 65535, 65535, 32768)

\* sign_extend<16>(0x8000) = 0xFFFFFFFFFFFF8000
C14_Witness ==
    /\ pc = "extended"
    /\ input.kind = "sign_extend" /\ input.BIT_SIZE = 16
    /\ input.val = U64(0, 0, 0, 32768)
    /\ result = Returns(U64(65535, 65535, 65535, 32768))


---------------------------------------------------------------------------
(* helper.rs, mod ops: the integer operations of the standard library that *)
(* the helpers call                                                        *)

\* u64::overflowing_add: the wrapped sum and whether it overflowed
U64_overflowing_add(a, b) ==
    LET s1 == a[1] + b[1]
        s2 == a[2] + b[2] + s1 \div 65536
        s3 == a[3] + b[3] + s2 \div 65536
        s4 == a[4] + b[4] + s3 \div 65536
    IN  [val |-> <<s1 % 65536, s2 % 65536, s3 % 65536, s4 % 65536>>,
         overflow |-> s4 >= 65536]

\* u64::overflowing_sub: the wrapped difference and whether it overflowed
U64_overflowing_sub(a, b) ==
    LET d1 == a[1] - b[1]
        d2 == a[2] - b[2] - (IF d1 < 0 THEN 1 ELSE 0)
        d3 == a[3] - b[3] - (IF d2 < 0 THEN 1 ELSE 0)
        d4 == a[4] - b[4] - (IF d3 < 0 THEN 1 ELSE 0)
    IN  [val |-> <<(d1 + 65536) % 65536, (d2 + 65536) % 65536,
                   (d3 + 65536) % 65536, (d4 + 65536) % 65536>>,
         overflow |-> d4 < 0]

\* i64::overflowing_add on bit patterns: the sum overflows when the operands
\* have the same sign and the wrapped sum the other one
I64_overflowing_add(a, b) ==
    LET v == U64_overflowing_add(a, b).val IN
    [val |-> v,
     overflow |-> I64_negative(a) = I64_negative(b) /\ I64_negative(v) # I64_negative(a)]

\* i64::overflowing_sub on bit patterns: the difference overflows when the
\* operands differ in sign and the wrapped difference has not the sign of a
I64_overflowing_sub(a, b) ==
    LET v == U64_overflowing_sub(a, b).val IN
    [val |-> v,
     overflow |-> I64_negative(a) # I64_negative(b) /\ I64_negative(v) # I64_negative(a)]

\* `carry as u64`, `carry as i64`
bool_as_int(carry) == U64_from(IF carry THEN 1 ELSE 0)

\* i64::MIN and -1 as bit patterns
I64_MIN == U64(32768, 0, 0, 0)
I64_minus_one == U64(65535, 65535, 65535, 65535)
U64_zero == U64(0, 0, 0, 0)

\* a < b on u64
U64_lt(a, b) ==
    \E j \in 1..4 : a[j] < b[j] /\ \A k \in (j + 1)..4 : a[k] = b[k]

\* u64::wrapping_neg / i64::wrapping_neg
U64_neg(a) == U64_overflowing_sub(U64_zero, a).val

\* the sum, wrapping, of the partial products of a by the bits i..hi of b:
\* a << k for every bit k of b that is set
RECURSIVE U64_mul_bits(_, _, _, _)
U64_mul_bits(a, b, i, hi) ==
    IF i > hi THEN U64_zero
    ELSE U64_overflowing_add(
             IF (U64_quarter(b, i \div 16 + 1) \div 2^(i % 16)) % 2 = 1
             THEN U64_shl(a, i) ELSE U64_zero,
             U64_mul_bits(a, b, i + 1, hi)).val

\* u64::wrapping_mul: the low 64 bits of the product, the partial products of
\* the four quarters of b added up
U64_wrapping_mul(a, b) ==
    U64_overflowing_add(
        U64_overflowing_add(U64_mul_bits(a, b, 0, 15), U64_mul_bits(a, b, 16, 31)).val,
        U64_overflowing_add(U64_mul_bits(a, b, 32, 47), U64_mul_bits(a, b, 48, 63)).val).val

\* i64::wrapping_mul giving the product of the magnitudes, its sign lost
I64_wrapping_mul_magnitude(a, b) ==
    U64_wrapping_mul(IF I64_negative(a) THEN U64_neg(a) ELSE a,
                     IF I64_negative(b) THEN U64_neg(b) ELSE b)

\* i64::wrapping_mul on bit patterns: the signed product wrapped to 64 bits,
\* the product of the magnitudes negated when the signs differ
I64_wrapping_mul(a, b) ==
    LET m == U64_wrapping_mul(IF I64_negative(a) THEN U64_neg(a) ELSE a,
                              IF I64_negative(b) THEN U64_neg(b) ELSE b)
    IN  IF I64_negative(a) # I64_negative(b) THEN U64_neg(m) ELSE m

\* the steps i, i-1, .., lo of the binary long division of a by b, b # 0,
\* from st, the quotient q and remainder r of the bits of a above bit i:
\* the next bit of a is shifted into r, and b is subtracted when it fits
RECURSIVE U64_div_steps(_, _, _, _, _)
U64_div_steps(a, b, i, lo, st) ==
    IF i < lo THEN st
    ELSE LET r2   == U64_or(U64_shl(st.r, 1), U64_and(U64_shr(a, i), U64_from(1)))
             fits == st.r[4] >= 32768 \/ ~U64_lt(r2, b)
         IN  IF fits
             THEN U64_div_steps(a, b, i - 1, lo,
                                [q |-> U64_or(st.q, U64_shl(U64_from(1), i)),
                                 r |-> U64_overflowing_sub(r2, b).val])
             ELSE U64_div_steps(a, b, i - 1, lo, [q |-> st.q, r |-> r2])

\* a / b and a % b on u64, b # 0: 64 steps, 16 at a time
U64_divrem(a, b) ==
    LET s1 == U64_div_steps(a, b, 63, 48, [q |-> U64_zero, r |-> U64_zero])
        s2 == U64_div_steps(a, b, 47, 32, s1)
        s3 == U64_div_steps(a, b, 31, 16, s2)
    IN  U64_div_steps(a, b, 15, 0, s3)

\* a / b and a % b on i64, b # 0 and not MIN / -1: the quotient truncates
\* towards zero and the remainder has the sign of a
I64_divrem(a, b) ==
    LET d == U64_divrem(IF I64_negative(a) THEN U64_neg(a) ELSE a,
                        IF I64_negative(b) THEN U64_neg(b) ELSE b)
    IN  [q |-> IF I64_negative(a) # I64_negative(b) THEN U64_neg(d.q) ELSE d.q,
         r |-> IF I64_negative(a) THEN U64_neg(d.r) ELSE d.r]

\* i64::checked_div without the check of MIN / -1
I64_checked_div_unchecked_min(a, b) ==
    IF b = U64_zero THEN None
    ELSE Some(I64_divrem(a, b).q)

\* i64::checked_div
I64_checked_div(a, b) ==
    IF b = U64_zero \/ (a = I64_MIN /\ b = I64_minus_one) THEN None
    ELSE Some(I64_divrem(a, b).q)

\* u64::checked_div
U64_checked_div(a, b) == IF b = U64_zero THEN None ELSE Some(U64_divrem(a, b).q)

\* i64::checked_rem
I64_checked_rem(a, b) ==
    IF b = U64_zero \/ (a = I64_MIN /\ b = I64_minus_one) THEN None
    ELSE Some(I64_divrem(a, b).r)

\* i64::checked_rem_euclid giving the truncating remainder
I64_checked_rem_euclid_truncating(a, b) ==
    IF b = U64_zero \/ (a = I64_MIN /\ b = I64_minus_one) THEN None
    ELSE Some(I64_divrem(a, b).r)

\* i64::checked_rem_euclid: a negative remainder r becomes
\* r.wrapping_add(rhs.wrapping_abs())
I64_checked_rem_euclid(a, b) ==
    IF b = U64_zero \/ (a = I64_MIN /\ b = I64_minus_one) THEN None
    ELSE LET r == I64_divrem(a, b).r IN
         IF I64_negative(r)
         THEN Some(U64_overflowing_add(r, IF I64_negative(b) THEN U64_neg(b) ELSE b).val)
         ELSE Some(r)


---------------------------------------------------------------------------
(* helper.rs, mod ops: the helpers *)

\* carrying_add_u reporting the overflow of the primary addition only
carrying_add_u_primary_only(a, b, carry) ==
    LET x == U64_overflowing_add(a, b)
        y == U64_overflowing_add(x.val, bool_as_int(carry))
    IN  [val |-> y.val, overflow |-> x.overflow]

\* ops::add::carrying_add_u: (v, a | b)
carrying_add_u(a, b, carry) ==
    LET x == U64_overflowing_add(a, b)
        y == U64_overflowing_add(x.val, bool_as_int(carry))
    IN  [val |-> y.val, overflow |-> x.overflow \/ y.overflow]

\* carrying_add_i combining the two flags with | as carrying_add_u does
carrying_add_i_or(a, b, carry) ==
    LET x == I64_overflowing_add(a, b)
        y == I64_overflowing_add(x.val, bool_as_int(carry))
    IN  [val |-> y.val, overflow |-> x.overflow \/ y.overflow]

\* ops::add::carrying_add_i: (v as u64, a ^ b)
carrying_add_i(a, b, carry) ==
    LET x == I64_overflowing_add(a, b)
        y == I64_overflowing_add(x.val, bool_as_int(carry))
    IN  [val |-> y.val, overflow |-> x.overflow # y.overflow]

\* ops::add
add(a, b, carry) ==
    [result            |-> carrying_add_u(a, b, carry).val,
     unsigned_overflow |-> carrying_add_u(a, b, carry).overflow,
     signed_overflow   |-> carrying_add_i(a, b, carry).overflow]

\* ops::sub::carrying_sub_u: (v, a | b)
carrying_sub_u(a, b, carry) ==
    LET x == U64_overflowing_sub(a, b)
        y == U64_overflowing_sub(x.val, bool_as_int(carry))
    IN  [val |-> y.val, overflow |-> x.overflow \/ y.overflow]

\* ops::sub::carrying_sub_i combining the two flags as the unsigned version
\* does
carrying_sub_i_or(a, b, carry) ==
    LET x == I64_overflowing_sub(a, b)
        y == I64_overflowing_sub(x.val, bool_as_int(carry))
    IN  [val |-> y.val, overflow |-> x.overflow \/ y.overflow]

\* ops::sub::carrying_sub_i: (v as u64, a ^ b)
carrying_sub_i(a, b, carry) ==
    LET x == I64_overflowing_sub(a, b)
        y == I64_overflowing_sub(x.val, bool_as_int(carry))
    IN  [val |-> y.val, overflow |-> x.overflow # y.overflow]

\* ops::sub
sub(a, b, carry) ==
    [result            |-> carrying_sub_u(a, b, carry).val,
     unsigned_overflow |-> carrying_sub_u(a, b, carry).overflow,
     signed_overflow   |-> carrying_sub_i(a, b, carry).overflow]

\* option_u64: Some(v as u64) of Some(v), the same bit pattern
option_u64(v) == v

\* ops::imul: (a as i64).wrapping_mul(b as i64) as u64
imul(a, b) == I64_wrapping_mul(a, b)

\* ops::umul: a.wrapping_mul(b)
umul(a, b) == U64_wrapping_mul(a, b)

\* ops::idiv
idiv(a, b) == option_u64(I64_checked_div(a, b))

\* ops::udiv
udiv(a, b) == U64_checked_div(a, b)

\* ops::rem
rem(a, b) == option_u64(I64_checked_rem(a, b))

\* ops::r#mod
mod(a, b) == option_u64(I64_checked_rem_euclid(a, b))

\* the amount b of a shift of a 64-bit value: an amount of 64 or more
\* overflows, which aborts in a build with overflow checks and otherwise
\* leaves the amount b & 63
ShiftAmount(b, checks) ==
    IF b[4] = 0 /\ b[3] = 0 /\ b[2] = 0 /\ b[1] < 64 THEN Returns(b[1])
    ELSE IF checks THEN Panic
    ELSE Returns(b[1] % 64)

\* ops::shl: a << b
shl(a, b, checks) ==
    LET n == ShiftAmount(b, checks) IN
    IF n = Panic THEN Panic ELSE Returns(U64_shl(a, n.val))

\* ops::asr: ((a as i64) >> b) as u64
asr(a, b, checks) ==
    LET n == ShiftAmount(b, checks) IN
    IF n = Panic THEN Panic ELSE Returns(I64_shr(a, n.val))

\* ops::shr: a >> b
shr(a, b, checks) ==
    LET n == ShiftAmount(b, checks) IN
    IF n = Panic THEN Panic ELSE Returns(U64_shr(a, n.val))

\* ops::bit: (a >> b) & 1
bit(a, b, checks) ==
    LET n == ShiftAmount(b, checks) IN
    IF n = Panic THEN Panic ELSE Returns(U64_and(U64_shr(a, n.val), U64_from(1)))


---------------------------------------------------------------------------
(* Inputs of the integer helpers *)

\* 64-bit values drawn for the operands a and b
NumArith == 7
\* shift amounts 0 .. MaxShift are drawn, with two amounts beyond 16 bits
MaxShift == 65

\* i64::MIN, -1, 0, 1, i64::MAX, -7, 3, 0x0123456789ABCDEF, -3, 7
ArithTable ==
    <<U64(32768, 0, 0, 0), U64(65535, 65535, 65535, 65535), U64(0, 0, 0, 0),
      U64(0, 0, 0, 1), U64(32767, 65535, 65535, 65535),
      U64(65535, 65535, 65535, 65529), U64(0, 0, 0, 3),
      U64(291, 17767, 35243, 52719), U64(65535, 65535, 65535, 65533),
      U64(0, 0, 0, 7)>>

ArithSample == {ArithTable[k] : k \in 1..NumArith}

\* 0 .. MaxShift, 0x0000000100000000 and 0xFFFFFFFFFFFFFFFF
ShiftSample ==
    {U64_from(n) : n \in 0..MaxShift} \cup {U64(0, 1, 0, 0), U64(65535, 65535, 65535, 65535)}

---------------------------------------------------------------------------
(* The integer helpers as a state machine: add or sub of a, b and a carry; *)
(* the four divisions of a by b, one after the other; a shift of a by b.   *)

InitOps ==
    /\ \/ \E a \in ArithSample, b \in ArithSample, c \in BOOLEAN :
            input = [kind |-> "carry", a |-> a, b |-> b, carry |-> c]
       \/ \E a \in ArithSample, b \in ArithSample :
            input = [kind |-> "divide", a |-> a, b |-> b]
       \/ \E a \in ArithSample, b \in ArithSample :
            input = [kind |-> "multiply", a |-> a, b |-> b]
       \/ \E a \in ArithSample, b \in ShiftSample, ch \in BOOLEAN :
            input = [kind |-> "shift", a |-> a, b |-> b, checks |-> ch]
    /\ pc = "start"
    /\ mid = None
    /\ result = None

Add ==
    /\ pc = "start"
    /\ input.kind = "carry"
    /\ result' = add(input.a, input.b, input.carry)
    /\ pc' = "added"
    /\ UNCHANGED <<input, mid>>

Sub ==
    /\ pc = "start"
    /\ input.kind = "carry"
    /\ result' = sub(input.a, input.b, input.carry)
    /\ pc' = "subtracted"
    /\ UNCHANGED <<input, mid>>

Imul ==
    /\ pc = "start"
    /\ input.kind = "multiply"
    /\ result' = [imul |-> imul(input.a, input.b)]
    /\ pc' = "imul"
    /\ UNCHANGED <<input, mid>>

Umul ==
    /\ pc = "imul"
    /\ result' = result @@ [umul |-> umul(input.a, input.b)]
    /\ pc' = "multiplied"
    /\ UNCHANGED <<input, mid>>

Idiv ==
    /\ pc = "start"
    /\ input.kind = "divide"
    /\ result' = [idiv |-> idiv(input.a, input.b)]
    /\ pc' = "idiv"
    /\ UNCHANGED <<input, mid>>

Udiv ==
    /\ pc = "idiv"
    /\ result' = result @@ [udiv |-> udiv(input.a, input.b)]
    /\ pc' = "udiv"
    /\ UNCHANGED <<input, mid>>

Rem ==
    /\ pc = "udiv"
    /\ result' = result @@ [rem |-> rem(input.a, input.b)]
    /\ pc' = "rem"
    /\ UNCHANGED <<input, mid>>

Mod ==
    /\ pc = "rem"
    /\ result' = result @@ [mod |-> mod(input.a, input.b)]
    /\ pc' = "divided"
    /\ UNCHANGED <<input, mid>>

Shl ==
    /\ pc = "start"
    /\ input.kind = "shift"
    /\ result' = shl(input.a, input.b, input.checks)
    /\ pc' = "shl"
    /\ UNCHANGED <<input, mid>>

Shr ==
    /\ pc = "start"
    /\ input.kind = "shift"
    /\ result' = shr(input.a, input.b, input.checks)
    /\ pc' = "shr"
    /\ UNCHANGED <<input, mid>>

Asr ==
    /\ pc = "start"
    /\ input.kind = "shift"
    /\ result' = asr(input.a, input.b, input.checks)
    /\ pc' = "asr"
    /\ UNCHANGED <<input, mid>>

Bit ==
    /\ pc = "start"
    /\ input.kind = "shift"
    /\ result' = bit(input.a, input.b, input.checks)
    /\ pc' = "bit"
    /\ UNCHANGED <<input, mid>>

NextOps ==
    Add \/ Sub \/ Imul \/ Umul \/ Idiv \/ Udiv \/ Rem \/ Mod \/ Shl \/ Shr \/ Asr \/ Bit

SpecOps == InitOps /\ [][NextOps]_vars

---------------------------------------------------------------------------
(* helper.rs, trait Float and FloatCastType::cast.  A float is its IEEE 754 *)
(* bit pattern: a sign bit, an exponent field of e bits and a mantissa of  *)
(* m bits.  A conversion between two precisions is exact when it widens    *)
(* and rounds to nearest, ties to even, when it narrows.  The sign and     *)
(* payload of a NaN result are not fixed by the language: nan names the    *)
(* outcome, "payload" (sign kept, mantissa truncated or extended, quiet bit *)
(* set) or "canonical" (the positive quiet NaN with no payload).           *)

\* the exponent and mantissa widths of a precision, and its type Bits
FloatFormat(p) ==
    [F16 |-> [e |-> 5, m |-> 10, bits |-> "u16"],
     F32 |-> [e |-> 8, m |-> 23, bits |-> "u32"],
     F64 |-> [e |-> 11, m |-> 52, bits |-> "u64"]][p]

\* Float::from_u64: Self::from_bits(v.access::<0>()), the pattern of the
\* value read from the low bits of the container
Float_from_u64(p, v) == access_to("u64", FloatFormat(p).bits, 0, v, TRUE).val

\* Float::to_u64: self.to_bits().into(), the pattern zero-extended
Float_to_u64(p, x) == Truncate(Width(FloatFormat(p).bits), x)

\* the sign, exponent field and mantissa of a pattern
Float_unpack(p, x) ==
    LET f    == FloatFormat(p)
        rest == U64_shr(x, f.m)
    IN  [sign |-> (rest[1] \div 2^f.e) % 2 = 1,
         exp  |-> rest[1] % 2^f.e,
         mant |-> U64_and(x, U64_ones(f.m))]

\* the position of the highest bit set in v, v # 0
U64_msb(v) == CHOOSE i \in 0..63 : U64_shr(v, i) = U64_from(1)

\* the pattern, without its sign, of the number sig * 2^q rounded to the
\* precision p, for sig # 0: the significand is shifted so that its last
\* place is that of the result (of a subnormal if the number is below the
\* least normal), rounded to nearest, ties to even, and added to the exponent
\* field, so that a carry out of the mantissa steps the exponent; a number
\* too large gives infinity
Float_round(p, sig, q) ==
    LET d       == FloatFormat(p)
        bias    == 2^(d.e - 1) - 1
        E       == U64_msb(sig) + q
        emin    == 1 - bias
        s       == (IF E < emin THEN emin ELSE E) - d.m - q
        kept    == IF s <= 0 THEN U64_shl(sig, 0 - s)
                   ELSE IF s >= 64 THEN U64_zero
                   ELSE U64_shr(sig, s)
        lost    == U64_overflowing_sub(sig, U64_shl(kept, s)).val
        half    == U64_shl(U64_from(1), s - 1)
        up      == s \in 1..63 /\ (U64_lt(half, lost) \/ (lost = half /\ kept[1] % 2 = 1))
        rounded == IF up THEN U64_overflowing_add(kept, U64_from(1)).val ELSE kept
        field   == IF E < emin THEN 0 ELSE E + bias - 1
    IN  IF E > bias THEN U64_shl(U64_from(2^d.e - 1), d.m)
        ELSE U64_overflowing_add(U64_shl(U64_from(field), d.m), rounded).val

\* a conversion that takes the subnormal numbers of the source for zero
Float_convert_flush(from, to, x, nan) ==
    LET s    == FloatFormat(from)
        d    == FloatFormat(to)
        u    == Float_unpack(from, x)
        sign == IF u.sign THEN U64_shl(U64_from(1), d.e + d.m) ELSE U64_zero
        inf  == U64_shl(U64_from(2^d.e - 1), d.m)
        qnan == U64_or(inf, U64_shl(U64_from(1), d.m - 1))
    IN  IF u.exp = 2^s.e - 1 /\ u.mant # U64_zero
        THEN IF nan = "canonical" THEN qnan
             ELSE U64_or(U64_or(sign, qnan),
                         IF d.m >= s.m THEN U64_shl(u.mant, d.m - s.m)
                         ELSE U64_shr(u.mant, s.m - d.m))
        ELSE IF u.exp = 2^s.e - 1 THEN U64_or(sign, inf)
        ELSE IF u.exp = 0 THEN sign
        ELSE U64_or(sign,
                    Float_round(to, U64_or(u.mant, U64_shl(U64_from(1), s.m)),
                                u.exp - (2^(s.e - 1) - 1) - s.m))

\* the conversions from as f64, from as f32, f16::to_f32, f16::to_f64,
\* f16::from_f32 and f16::from_f64 on bit patterns: a NaN gives a NaN, an
\* infinity the infinity and a zero the zero of its sign, and every other
\* number, sig * 2^q with sig its significand, is rounded to the target
Float_convert(from, to, x, nan) ==
    LET s    == FloatFormat(from)
        d    == FloatFormat(to)
        u    == Float_unpack(from, x)
        sign == IF u.sign THEN U64_shl(U64_from(1), d.e + d.m) ELSE U64_zero
        inf  == U64_shl(U64_from(2^d.e - 1), d.m)
        qnan == U64_or(inf, U64_shl(U64_from(1), d.m - 1))
    IN  IF u.exp = 2^s.e - 1 /\ u.mant # U64_zero
        THEN IF nan = "canonical" THEN qnan
             ELSE U64_or(U64_or(sign, qnan),
                         IF d.m >= s.m THEN U64_shl(u.mant, d.m - s.m)
                         ELSE U64_shr(u.mant, s.m - d.m))
        ELSE IF u.exp = 2^s.e - 1 THEN U64_or(sign, inf)
        ELSE IF u.exp = 0 /\ u.mant = U64_zero THEN sign
        ELSE IF u.exp = 0
        THEN U64_or(sign, Float_round(to, u.mant, 1 - (2^(s.e - 1) - 1) - s.m))
        ELSE U64_or(sign,
                    Float_round(to, U64_or(u.mant, U64_shl(U64_from(1), s.m)),
                                u.exp - (2^(s.e - 1) - 1) - s.m))

\* FloatCastType::cast: the container itself when the precisions are the
\* same, else the converted value of Float::from_u64(a) as a container
FloatCastType_cast(self, a, nan) ==
    IF self.from = self.to THEN a
    ELSE Float_to_u64(self.to,
             Float_convert(self.from, self.to, Float_from_u64(self.from, a), nan))

---------------------------------------------------------------------------
(* The cast as a state machine: a container is cast from one precision to  *)
(* another and the result cast back.                                       *)

\* containers drawn for the casts
NumFloats == 10

\* 1.0f32, the least f32 subnormal, minus the greatest f32 subnormal, the
\* greatest finite f32, pi as f32 under 0xDEADBEEF, +infinity, a quiet NaN,
\* -0.0, the least normal f32, the f64 1 + 2^-24, a negative signalling NaN,
\* the f64 half way between the greatest f32 and 2^128
FloatTable ==
    <<U64(0, 0, 16256, 0), U64(0, 0, 0, 1), U64(0, 0, 32895, 65535),
      U64(0, 0, 32639, 65535), U64(57005, 48879, 16457, 4059), U64(0, 0, 32640, 0),
      U64(0, 0, 32704, 1), U64(0, 0, 32768, 0), U64(0, 0, 128, 0),
      U64(16368, 0, 4096, 0), U64(0, 0, 65408, 1), U64(18415, 65535, 61440, 0)>>

FloatSample == {FloatTable[k] : k \in 1..NumFloats}

InitFloat ==
    /\ \E a \in FloatSample, from \in FloatPrecisions, to \in FloatPrecisions,
          nan \in {"payload", "canonical"} :
            input = [kind |-> "cast", a |-> a, from |-> from, to |-> to, nan |-> nan]
    /\ pc = "start"
    /\ mid = None
    /\ result = None

\* FloatCastType{from, to}.cast(a)
Cast ==
    /\ pc = "start"
    /\ input.kind = "cast"
    /\ mid' = FloatCastType_cast([to |-> input.to, from |-> input.from], input.a, input.nan)
    /\ pc' = "cast"
    /\ UNCHANGED <<input, result>>

\* FloatCastType{from: to, to: from}.cast of the result
CastBack ==
    /\ pc = "cast"
    /\ result' = FloatCastType_cast([to |-> input.from, from |-> input.to], mid, input.nan)
    /\ pc' = "castback"
    /\ UNCHANGED <<input, mid>>

NextFloat == Cast \/ CastBack

SpecFloat == InitFloat /\ [][NextFloat]_vars

---------------------------------------------------------------------------
\* every operation of the model
Init ==
    InitEncoding \/ InitInstructionSet \/ InitNibble \/ InitBitAccess \/ InitOps
        \/ InitFloat
Next ==
    NextEncoding \/ NextInstructionSet \/ NextNibble \/ NextBitAccess \/ NextOps
        \/ NextFloat
Spec == Init /\ [][Next]_vars


---------------------------------------------------------------------------
(* Claims about the integer helpers.  The claims speak of unbounded        *)
(* integers; here a natural number is the function of its base-256 digits, *)
(* least significant first, and is added, multiplied and compared digit by *)
(* digit.                                                                  *)

\* the natural number a u64 holds
NatOf(v) ==
    [k \in 1..8 |-> IF k % 2 = 1 THEN v[(k + 1) \div 2] % 256 ELSE v[k \div 2] \div 256]

NatLen(x) == Cardinality(DOMAIN x)
NatDigit(x, k) == IF k \in DOMAIN x THEN x[k] ELSE 0
NatMax(m, n) == IF m >= n THEN m ELSE n

\* the number 0 or 1 of a boolean
NatOfBool(c) == [k \in 1..1 |-> IF c THEN 1 ELSE 0]

\* 2^63 and 2^64
NatTwo63 == [k \in 1..8 |-> IF k = 8 THEN 128 ELSE 0]
NatTwo64 == [k \in 1..9 |-> IF k = 9 THEN 1 ELSE 0]

\* x + y
NatAdd(x, y) ==
    LET n == NatMax(NatLen(x), NatLen(y)) + 1
        cy[k \in 0..n] ==
            IF k = 0 THEN 0
            ELSE (NatDigit(x, k) + NatDigit(y, k) + cy[k - 1]) \div 256
    IN  [k \in 1..n |-> (NatDigit(x, k) + NatDigit(y, k) + cy[k - 1]) % 256]

\* x * y
NatMul(x, y) ==
    LET n == NatLen(x) + NatLen(y)
        col(k) ==
            LET s[i \in 0..NatLen(x)] ==
                    IF i = 0 THEN 0 ELSE s[i - 1] + x[i] * NatDigit(y, k + 1 - i)
            IN  s[NatLen(x)]
        cy[k \in 0..n] == IF k = 0 THEN 0 ELSE (col(k) + cy[k - 1]) \div 256
    IN  [k \in 1..n |-> (col(k) + cy[k - 1]) % 256]

\* x = y and x < y, whatever the numbers of digits
NatEq(x, y) ==
    \A k \in 1..NatMax(NatLen(x), NatLen(y)) : NatDigit(x, k) = NatDigit(y, k)
NatLess(x, y) ==
    LET n == NatMax(NatLen(x), NatLen(y)) IN
    \E k \in 1..n : /\ NatDigit(x, k) < NatDigit(y, k)
                     /\ \A j \in (k + 1)..n : NatDigit(x, j) = NatDigit(y, j)

\* x mod 2^64
NatLow64(x) == [k \in 1..8 |-> NatDigit(x, k)]

\* C15: add(a, b, carry).result is (a + b + carry) mod 2^64 and its
\* unsigned_overflow is true iff a + b + carry >= 2^64; sub(a, b, carry).result
\* is (a - b - carry) mod 2^64, that is result + b + carry is a or a + 2^64,
\* and its unsigned_overflow is true iff a < b + carry.
C15_CarryResult ==
    /\ pc = "added" =>
          LET sum == NatAdd(NatAdd(NatOf(input.a), NatOf(input.b)), NatOfBool(input.carry))
          IN  /\ NatEq(NatOf(result.result), NatLow64(sum))
              /\ result.unsigned_overflow = ~NatLess(sum, NatTwo64)
    /\ pc = "subtracted" =>
          LET less == NatAdd(NatOf(input.b), NatOfBool(input.carry))
              back == NatAdd(NatOf(result.result), less)
          IN  /\ result.unsigned_overflow = NatLess(NatOf(input.a), less)
              /\ IF NatLess(NatOf(input.a), less)
                 THEN NatEq(back, NatAdd(NatOf(input.a), NatTwo64))
                 ELSE NatEq(back, NatOf(input.a))

\* add(u64::MAX, 1, false) is 0 with unsigned_overflow
C15_Witness ==
    /\ pc = "added"
    /\ input.a = U64(65535, 65535, 65535, 65535)
    /\ input.b = U64(0, 0, 0, 1)
    /\ input.carry = FALSE
    /\ result.result = U64(0, 0, 0, 0)
    /\ result.unsigned_overflow = TRUE


\* the signed reading X of a u64 x, moved into the naturals: X + 2^63, which
\* is x with its top bit flipped
NatBiased(v) == NatOf(<<v[1], v[2], v[3], (v[4] + 32768) % 65536>>)

\* X + Y + c lies outside [-2^63, 2^63 - 1], for c = 0 or 1:
\* (X + 2^63) + (Y + 2^63) + c is below 2^63 or not below 2^63 + 2^64
SignedAddOverflows(x, y, c) ==
    LET sum == NatAdd(NatAdd(NatBiased(x), NatBiased(y)), NatOfBool(c)) IN
    NatLess(sum, NatTwo63) \/ ~NatLess(sum, NatAdd(NatTwo63, NatTwo64))

\* X - Y - c lies outside [-2^63, 2^63 - 1], for c = 0 or 1:
\* (X + 2^63) + 2^63 is below (Y + 2^63) + c or not below it by less than 2^64
SignedSubOverflows(x, y, c) ==
    LET high == NatAdd(NatBiased(x), NatTwo63)
        low  == NatAdd(NatBiased(y), NatOfBool(c))
    IN  NatLess(high, low) \/ ~NatLess(high, NatAdd(low, NatTwo64))

\* the wrapped value of the primary step, as the claim's arithmetic gives it
WrappedSum(a, b) ==
    LET d == NatLow64(NatAdd(NatOf(a), NatOf(b))) IN
    <<d[1] + 256 * d[2], d[3] + 256 * d[4], d[5] + 256 * d[6], d[7] + 256 * d[8]>>

\* a - b mod 2^64 is a + (2^64 - 1 - b) + 1 mod 2^64
WrappedDifference(a, b) ==
    WrappedSum(WrappedSum(a, <<65535 - b[1], 65535 - b[2], 65535 - b[3], 65535 - b[4]>>),
               <<1, 0, 0, 0>>)

\* the two steps of the signed computation: the primary step on a and b, and
\* the step that adds or subtracts the carry to the wrapped value of the
\* primary step
AddStep1(a, b) == SignedAddOverflows(a, b, FALSE)
AddStep2(a, b, c) == SignedAddOverflows(WrappedSum(a, b), <<0, 0, 0, 0>>, c)
SubStep1(a, b) == SignedSubOverflows(a, b, FALSE)
SubStep2(a, b, c) == SignedSubOverflows(WrappedDifference(a, b), <<0, 0, 0, 0>>, c)

\* C16 as stated: the signed_overflow of add (of sub) is true iff at least
\* one of the two steps overflowed the signed 64-bit range, the primary
\* signed add (subtract) of a and b or the signed add (subtract) of the carry
\* to the wrapped intermediate value.
C16_SignedOverflowEitherStep ==
    /\ pc = "added" =>
          result.signed_overflow =
              (AddStep1(input.a, input.b) \/ AddStep2(input.a, input.b, input.carry))
    /\ pc = "subtracted" =>
          result.signed_overflow =
              (SubStep1(input.a, input.b) \/ SubStep2(input.a, input.b, input.carry))

\* C16 amended: the signed_overflow of add (of sub) is true iff exactly one
\* of the two steps overflowed the signed 64-bit range; when both steps
\* overflow the flag is false.
C16_SignedOverflowOneStep ==
    /\ pc = "added" =>
          result.signed_overflow =
              (AddStep1(input.a, input.b) # AddStep2(input.a, input.b, input.carry))
    /\ pc = "subtracted" =>
          result.signed_overflow =
              (SubStep1(input.a, input.b) # SubStep2(input.a, input.b, input.carry))

\* add(i64::MIN, -1, true): both steps overflow and the flag is false
C16_Witness ==
    /\ pc = "added"
    /\ input.a = U64(32768, 0, 0, 0)
    /\ input.b = U64(65535, 65535, 65535, 65535)
    /\ input.carry = TRUE
    /\ AddStep1(input.a, input.b)
    /\ AddStep2(input.a, input.b, input.carry)
    /\ result.signed_overflow = FALSE


\* C28: with A, B the signed readings of a and b, the signed_overflow of
\* add(a, b, carry) is true iff A + B + carry lies outside [-2^63, 2^63 - 1],
\* and that of sub(a, b, carry) iff A - B - carry lies outside that range.
C28_SignedOverflowExact ==
    /\ pc = "added" =>
          result.signed_overflow = SignedAddOverflows(input.a, input.b, input.carry)
    /\ pc = "subtracted" =>
          result.signed_overflow = SignedSubOverflows(input.a, input.b, input.carry)

\* sub(0, i64::MIN, true): 0 - (-2^63) - 1 = 2^63 - 1 is in range, the flag
\* is false and the result i64::MAX, although both steps overflow
C28_Witness ==
    /\ pc = "subtracted"
    /\ input.a = U64(0, 0, 0, 0)
    /\ input.b = U64(32768, 0, 0, 0)
    /\ input.carry = TRUE
    /\ SubStep1(input.a, input.b)
    /\ SubStep2(input.a, input.b, input.carry)
    /\ result.signed_overflow = FALSE
    /\ result.result = U64(32767, 65535, 65535, 65535)

\* the divisor is zero, or the dividend is the minimum signed value and the
\* divisor the pattern of -1
C17_SignedDivisionFails ==
    \/ input.b = U64(0, 0, 0, 0)
    \/ input.a = U64(32768, 0, 0, 0) /\ input.b = U64(65535, 65535, 65535, 65535)

\* C17: idiv, rem and mod return absent iff b = 0 or (a is the minimum signed
\* value and b is the pattern of -1); udiv returns absent iff b = 0; in every
\* other case each returns a value.
C17_DivisionFailure ==
    pc = "divided" =>
        /\ result.idiv = None <=> C17_SignedDivisionFails
        /\ result.rem = None <=> C17_SignedDivisionFails
        /\ result.mod = None <=> C17_SignedDivisionFails
        /\ result.udiv = None <=> input.b = U64(0, 0, 0, 0)
        /\ \A op \in {"idiv", "udiv", "rem", "mod"} :
              result[op] # None =>
                  /\ result[op].tag = "Some"
                  /\ result[op].val \in Seq(0..65535) /\ Len(result[op].val) = 4

\* i64::MIN by -1: the signed divisions are absent, udiv gives 0
C17_Witness ==
    /\ pc = "divided"
    /\ input.a = U64(32768, 0, 0, 0)
    /\ input.b = U64(65535, 65535, 65535, 65535)
    /\ result.idiv = None /\ result.rem = None /\ result.mod = None
    /\ result.udiv = Some(U64(0, 0, 0, 0))

\* the sign and the magnitude |X| of the signed reading X of a u64:
\* 2^64 - x, the complement of x plus 1, when the top bit is set
IsNegative(v) == v[4] >= 32768
Magnitude(v) ==
    IF IsNegative(v)
    THEN NatLow64(NatAdd(NatOf(<<65535 - v[1], 65535 - v[2], 65535 - v[3], 65535 - v[4]>>),
                         NatOfBool(TRUE)))
    ELSE NatOf(v)
IsZero(v) == v = <<0, 0, 0, 0>>

\* C18: with A, B the signed readings of a, b, whenever they return a value:
\* idiv gives q = trunc(A / B) and rem gives r with A = q * B + r, |r| < |B|
\* and r zero or of the sign of A, that is |A| = |q| * |B| + |r| with q zero
\* or negative exactly when A and B differ in sign; mod gives m with
\* 0 <= m < |B| and A - m divisible by B, that is m = r, or m = r + |B| for
\* a negative r; udiv gives u = floor(a / b), that is u * b <= a < u * b + b.
C18_QuotientRemainder ==
    pc = "divided" =>
        /\ (result.idiv # None /\ result.rem # None /\ result.mod # None) =>
              LET q == result.idiv.val
                  r == result.rem.val
                  m == result.mod.val
              IN  /\ NatEq(Magnitude(input.a),
                           NatAdd(NatMul(Magnitude(q), Magnitude(input.b)), Magnitude(r)))
                  /\ NatLess(Magnitude(r), Magnitude(input.b))
                  /\ IsZero(r) \/ IsNegative(r) = IsNegative(input.a)
                  /\ IsZero(q) \/ IsNegative(q) = (IsNegative(input.a) # IsNegative(input.b))
                  /\ ~IsNegative(m)
                  /\ NatLess(NatOf(m), Magnitude(input.b))
                  /\ IF IsNegative(r)
                     THEN NatEq(NatAdd(NatOf(m), Magnitude(r)), Magnitude(input.b))
                     ELSE m = r
        /\ result.udiv # None =>
              LET ub == NatMul(NatOf(result.udiv.val), NatOf(input.b)) IN
              /\ ~NatLess(NatOf(input.a), ub)
              /\ NatLess(NatOf(input.a), NatAdd(ub, NatOf(input.b)))
        /\ (input.a = U64(65535, 65535, 65535, 65529) /\ input.b = U64(0, 0, 0, 3)) =>
              /\ result.rem = Some(U64(65535, 65535, 65535, 65535))
              /\ result.mod = Some(U64(0, 0, 0, 2))

\* -7 by 3: idiv is -2, rem is -1, mod is 2, udiv is 0x5555555555555553
C18_Witness ==
    /\ pc = "divided"
    /\ input.a = U64(65535, 65535, 65535, 65529)
    /\ input.b = U64(0, 0, 0, 3)
    /\ result.idiv = Some(U64(65535, 65535, 65535, 65534))
    /\ result.rem = Some(U64(65535, 65535, 65535, 65535))
    /\ result.mod = Some(U64(0, 0, 0, 2))
    /\ result.udiv = Some(U64(21845, 21845, 21845, 21843))


\* the shift amount of the input when it is one of 0 .. 63, else -1
C19_SmallAmount ==
    IF input.b[2] = 0 /\ input.b[3] = 0 /\ input.b[4] = 0 /\ input.b[1] < 64
    THEN input.b[1] ELSE -1

\* C19: shl, shr, asr and bit return a numeric result without aborting for
\* every pair of 64-bit inputs, shift amounts b >= 64 included; and for b in
\* 0..=63 shl(a, b) is (a * 2^b) mod 2^64, shr(a, b) is floor(a / 2^b),
\* asr(a, b) is shr with the vacated bits copies of the sign bit of a, and
\* bit(a, b) is bit b of a as 0 or 1.
C19_ShiftsTotal ==
    pc \in {"shl", "shr", "asr", "bit"} =>
        LET n == C19_SmallAmount IN
        /\ result.tag = "Returns"
        /\ result.val \in Seq(0..65535) /\ Len(result.val) = 4
        /\ (n >= 0 /\ pc = "shl") =>
              \A i \in 0..63 :
                  U64_bit(result.val, i) = IF i >= n THEN U64_bit(input.a, i - n) ELSE 0
        /\ (n >= 0 /\ pc = "shr") =>
              \A i \in 0..63 :
                  U64_bit(result.val, i) = IF i + n <= 63 THEN U64_bit(input.a, i + n) ELSE 0
        /\ (n >= 0 /\ pc = "asr") =>
              \A i \in 0..63 :
                  U64_bit(result.val, i) =
                      IF i + n <= 63 THEN U64_bit(input.a, i + n) ELSE U64_bit(input.a, 63)
        /\ (n >= 0 /\ pc = "bit") => result.val = <<U64_bit(input.a, n), 0, 0, 0>>

\* a 64-bit pattern: four quarters of 16 bits
C29_IsU64(v) == DOMAIN v = 1..4 /\ \A j \in 1..4 : v[j] \in 0..65535

\* C29: imul(a, b) and umul(a, b) are the same 64-bit pattern, the low 64
\* bits of the product a * b of the unsigned readings, and both always return
\* a value.
C29_MultiplyAgree ==
    /\ pc \in {"imul", "multiplied"} => C29_IsU64(result.imul)
    /\ pc = "multiplied" =>
          /\ C29_IsU64(result.umul)
          /\ result.imul = result.umul
          /\ NatEq(NatOf(result.umul),
                   NatLow64(NatMul(NatOf(input.a), NatOf(input.b))))

\* -7 * 3: both give the pattern of -21, 0xFFFFFFFFFFFFFFEB
C29_Witness ==
    /\ pc = "multiplied"
    /\ input.a = U64(65535, 65535, 65535, 65529)
    /\ input.b = U64(0, 0, 0, 3)
    /\ result.imul = U64(65535, 65535, 65535, 65515)
    /\ result.umul = U64(65535, 65535, 65535, 65515)

---------------------------------------------------------------------------
(* Claims about the float casts *)

\* the low 32 bits of the container are a NaN of single precision: the
\* exponent bits 23..30 are all ones and the mantissa bits 0..22 are not zero
C22_IsNaN32(a) ==
    (a[2] % 32768) \div 128 = 255 /\ ((a[2] % 128) # 0 \/ a[1] # 0)

\* C22: for a container whose single-precision pattern is not a NaN, the
\* cast from F32 to F64 followed by the cast from F64 to F32 returns that
\* 32-bit pattern, in the low 32 bits of the container.
C22_CastRoundTrip ==
    (pc = "castback" /\ input.from = "F32" /\ input.to = "F64"
        /\ ~C22_IsNaN32(input.a)) =>
        result = <<input.a[1], input.a[2], 0, 0>>

\* the least subnormal 0x00000001 is 2^-149, 0x36A0000000000000 as a double,
\* and comes back
C22_Witness ==
    /\ pc = "castback"
    /\ input.from = "F32"
    /\ input.to = "F64"
    /\ input.a = U64(0, 0, 0, 1)
    /\ mid = U64(13984, 0, 0, 0)
    /\ result = U64(0, 0, 0, 1)

===========================================================================
